---- MODULE Spec2Model ----
(***************************************************************************)
(* ReconPilot orchestration engine: the scan plan (ReconPlan), the event   *)
(* bus (EventBus.publish) and the orchestrator (Orchestrator.start, its    *)
(* main loop, the per-task work units and asset ingestion).                *)
(*                                                                         *)
(* Concurrency is asyncio's: one thread, coroutines that run without       *)
(* interruption from one suspension point to the next.  Every action below *)
(* is the code that one coroutine runs between two points at which it may  *)
(* be suspended.  The points are: asyncio.sleep(1) in the main loop, the   *)
(* wait for the next result of the adapter stream, and every               *)
(* event_bus.publish (a subscriber is called with the event already in the *)
(* history; an asynchronous subscriber may suspend, and a subscriber may   *)
(* raise, which publish does not catch).                                   *)
(***************************************************************************)
EXTENDS Integers, Sequences, FiniteSets, TLC

\* ---------------------------------------------------------------- bounds
MaxParallel == 2
MaxTasks == 3
MaxResults == 2
MaxSubscribers == 2
MaxPublishes == 2
MaxSeq == 1002
MaxAddedRules == 3
MaxLines == 2

\* ------------------------------------------------------ program constants
max_history == 1000

PENDING == "pending"
RUNNING == "running"
COMPLETED == "completed"
FAILED == "failed"
SKIPPED == "skipped"

AUTO == "auto"
INTERACTIVE == "interactive"
PASSIVE == "passive"

ScanMode == {AUTO, INTERACTIVE, PASSIVE}

TaskEventTypes == {"task_started", "task_progress", "task_completed", "task_failed"}

\* ----------------------------------------------------------------- inputs
\* Targets given to ScanConfig, one of each shape _create_initial_task tells apart.
UrlTargets == {"https://x.example.com/"}
IpTargets == {"10.0.0.1"}
DomainTargets == {"example.com"}
Targets == UrlTargets \cup IpTargets \cup DomainTargets

\* the other targets start() is checked with
MoreUrlTargets == {"http://10.0.0.1:8080"}
MoreIpTargets == {"192.168.1.254"}
MoreDomainTargets == {"256.0.0.1", "ftp://example.com", "10.0.0"}
StartTargets == Targets \cup MoreUrlTargets \cup MoreIpTargets \cup MoreDomainTargets

\* the characters of a target string
Chars ==
    "https://x.example.com/" :> << "h", "t", "t", "p", "s", ":", "/", "/", "x", ".", "e", "x", "a", "m", "p", "l", "e", ".", "c", "o", "m", "/" >>
    @@ "10.0.0.1" :> << "1", "0", ".", "0", ".", "0", ".", "1" >>
    @@ "example.com" :> << "e", "x", "a", "m", "p", "l", "e", ".", "c", "o", "m" >>
    @@ "http://10.0.0.1:8080" :> << "h", "t", "t", "p", ":", "/", "/", "1", "0", ".", "0", ".", "0", ".", "1", ":", "8", "0", "8", "0" >>
    @@ "192.168.1.254" :> << "1", "9", "2", ".", "1", "6", "8", ".", "1", ".", "2", "5", "4" >>
    @@ "256.0.0.1" :> << "2", "5", "6", ".", "0", ".", "0", ".", "1" >>
    @@ "ftp://example.com" :> << "f", "t", "p", ":", "/", "/", "e", "x", "a", "m", "p", "l", "e", ".", "c", "o", "m" >>
    @@ "10.0.0" :> << "1", "0", ".", "0", ".", "0" >>

\* Assets an adapter may report.  Asset.type is an open string set.
MkAsset(ty, va) == [type |-> ty, value |-> va, tech |-> ""]

AssetPool ==
    { MkAsset("subdomain", "a.example.com"),
      MkAsset("a:b", "x"),
      MkAsset("a", "b:x") }

\* Registries handed to the orchestrator: the registered tool names and the
\* ones whose binary shutil.which finds.
Registries ==
    { [registered |-> {"subfinder", "httpx", "dnsx"},
       available |-> {"subfinder", "httpx", "dnsx"}],
      [registered |-> {"subfinder", "httpx", "dnsx"},
       available |-> {"subfinder", "dnsx"}] }

\* ------------------------------------------------------------------ state
VARIABLES
    target,         \* config.target
    mode,           \* config.mode
    max_parallel,   \* config.max_parallel
    registry,       \* the ToolRegistry: registered names, available names
    tasks,          \* session.tasks; a task's id is its index
    assets,         \* session.assets; an asset's id is its index
    completed_at,   \* session.completed_at is set
    pending,        \* plan.pending (deque of task ids, head = left end)
    running,        \* plan.running
    completed,      \* plan.completed
    failed,         \* plan.failed
    skipped,        \* plan.skipped
    paused,         \* Orchestrator._paused
    stopped,        \* Orchestrator._stopped
    seen_assets,    \* Orchestrator._seen_assets (set of key strings)
    history,        \* EventBus._history
    mainpc,         \* position of the coroutine running start()
    units,          \* per task: position and locals of its _execute_task work unit
    ingested,       \* per asset, the calls of _handle_asset with it, counted up to 3
    subscribers,    \* EventBus._subscribers: event type -> list of callbacks
    calls,          \* per publisher: its call of EventBus.publish
    process,        \* ToolAdapter._process of one adapter: a child or None
    children,       \* per child process of that adapter: its state
    execs,          \* per caller: its call of ToolAdapter.execute
    canceller,      \* the call of ToolAdapter.cancel
    got,            \* the list a client holds from EventBus.get_history
    db,             \* the tables of the Database file
    saved,          \* the session handed to the last save_session, if any
    loaded,         \* what get_session returned since then, if called
    rules,          \* RulesEngine.rules
    matched,        \* the asset and the result of the last get_next_tools, if any
    output,         \* the lines the child process of the httpx task is still to write
    stdout_data,    \* stdout_data of the httpx task's call of ToolAdapter.execute
    findings        \* ScanSession.findings

vars == << target, mode, max_parallel, registry, tasks, assets, completed_at,
           pending, running, completed, failed, skipped, paused, stopped,
           seen_assets, history, mainpc, units, ingested, subscribers, calls,
           process, children, execs, canceller, got, db, saved, loaded,
           rules, matched, output, stdout_data, findings >>

busVars == << subscribers, calls >>
adapterVars == << process, children, execs, canceller >>
streamVars == << output, stdout_data, findings >>
clientVars == << got >>
storeVars == << db, saved, loaded >>
rulesVars == << rules, matched >>

configVars == << target, mode, max_parallel, registry >>
planLists == << running, completed, failed, skipped >>

\* -------------------------------------------------------------- event bus
Event(ty, t, a) == [type |-> ty, task |-> t, atype |-> a.type, avalue |-> a.value]

NoAsset == [type |-> "", value |-> ""]

ScanEvent(ty) == Event(ty, 0, NoAsset)
TaskEvent(ty, t) == Event(ty, t, NoAsset)
AssetEvent(a) == Event("asset_discovered", 0, a)

\* EventBus.publish up to the call of the subscribers: the event is appended
\* and the oldest one evicted when the history outgrows _max_history.
publish_evicts_newest(h, e) ==
    IF Len(h) >= max_history THEN Append(SubSeq(h, 1, Len(h) - 1), e)
    ELSE Append(h, e)

publish(h, e) ==
    LET h1 == Append(h, e)
    IN  IF Len(h1) > max_history THEN Tail(h1) ELSE h1

\* the callbacks a client may register: a plain function or a coroutine
\* function (asyncio.iscoroutinefunction, line 62), returning or raising
Callbacks == [async : BOOLEAN, raises : BOOLEAN]

\* the event types subscribed to and the events published on a bus of its
\* own
BusEventTypes == {"task_completed", "task_failed"}

BusEvents == { TaskEvent("task_completed", 1) }

\* the coroutines that call EventBus.publish on the bus of its own: two work
\* units, and the first of them where one publisher is enough
Publishers == {"unit", "unit2"}

OnePublisher == {"unit"}

\* self._subscribers[ty], or no list when ty is not a key
SubscribersOf(subs, ty) == IF ty \in DOMAIN subs THEN subs[ty] ELSE <<>>

\* the number of registrations on the bus
RECURSIVE Registrations(_)
Registrations(subs) ==
    IF DOMAIN subs = {} THEN 0
    ELSE LET ty == CHOOSE x \in DOMAIN subs : TRUE
         IN  Len(subs[ty]) + Registrations([x \in DOMAIN subs \ {ty} |-> subs[x]])

\* a call of publish: pc its position, event its argument, idx the place in
\* the list of the subscriber called next or being awaited, invoked the
\* subscribers it has called; subs is the list as it was when publish was
\* called, and stable says that the list has not been changed since
CallIdle == [pc |-> "idle", event |-> ScanEvent(""), idx |-> 0, subs |-> <<>>,
             invoked |-> <<>>, stable |-> TRUE]

\* EventBus.publish, lines 60-65: the loop over the subscribers from place
\* c.idx of list on, up to the return of publish, the raise of a plain
\* subscriber, which publish does not catch, or the await of a coroutine
\* subscriber
RECURSIVE DeliverNewestFirst(_, _)
DeliverNewestFirst(c, list) ==
    IF c.idx > Len(list) THEN [c EXCEPT !.pc = "returned"]
    ELSE LET cb == list[Len(list) + 1 - c.idx]
             c1 == [c EXCEPT !.invoked = Append(@, cb)]
         IN  IF cb.async THEN [c1 EXCEPT !.pc = "awaiting"]
             ELSE IF cb.raises THEN [c1 EXCEPT !.pc = "raised"]
             ELSE DeliverNewestFirst([c1 EXCEPT !.idx = @ + 1], list)

RECURSIVE Deliver(_, _)
Deliver(c, list) ==
    IF c.idx > Len(list) THEN [c EXCEPT !.pc = "returned"]
    ELSE LET cb == list[c.idx]
             c1 == [c EXCEPT !.invoked = Append(@, cb)]
         IN  IF cb.async THEN [c1 EXCEPT !.pc = "awaiting"]
             ELSE IF cb.raises THEN [c1 EXCEPT !.pc = "raised"]
             ELSE Deliver([c1 EXCEPT !.idx = @ + 1], list)

\* the calls of publish, after the list of ty was changed under the ones
\* that are suspended in it
Disturbed(ty) ==
    [p \in Publishers |->
        IF calls[p].pc = "awaiting" /\ calls[p].event.type = ty
        THEN [calls[p] EXCEPT !.stable = FALSE]
        ELSE calls[p]]

\* ------------------------------------------------------------------ tools
ToolRegistry_get(name) == name \in registry.registered

is_available(name) == name \in registry.available

\* ----------------------------------------------------- regular expressions
\* the character classes of the patterns of helpers.py
Digit == {"0", "1", "2", "3", "4", "5", "6", "7", "8", "9"}
Alpha == {"a", "b", "c", "d", "e", "f", "g", "h", "i", "j", "k", "l", "m", "n", "o", "p", "q", "r", "s", "t", "u", "v", "w", "x", "y", "z",
          "A", "B", "C", "D", "E", "F", "G", "H", "I", "J", "K", "L", "M", "N", "O", "P", "Q", "R", "S", "T", "U", "V", "W", "X", "Y", "Z"}
AlNum == Alpha \cup Digit
\* "." matches every character but the newline
Dot == AlNum \cup {":", "/", ".", "-", "_", "?", "=", " "}

\* patterns: one character of a class, a sequence, an alternative, and a
\* repetition between min and max times
Chr(S) == [k |-> "chr", set |-> S]
Lit(c) == Chr({c})
Cat(a, b) == [k |-> "cat", a |-> a, b |-> b]
Alt(a, b) == [k |-> "alt", a |-> a, b |-> b]
Rep(a, min, max) == [k |-> "rep", a |-> a, min |-> min, max |-> max]
Opt(a) == Rep(a, 0, 1)
\* a bound no repetition over a target reaches
Many == 64

\* the positions at which a match of pattern re that begins at position i of
\* s may end
RECURSIVE Ends(_, _, _)
RECURSIVE RepEnds(_, _, _, _, _)
Ends(re, s, i) ==
    CASE re.k = "chr" -> IF i <= Len(s) /\ s[i] \in re.set THEN {i + 1} ELSE {}
      [] re.k = "cat" -> UNION { Ends(re.b, s, j) : j \in Ends(re.a, s, i) }
      [] re.k = "alt" -> Ends(re.a, s, i) \cup Ends(re.b, s, i)
      [] re.k = "rep" -> RepEnds(re.a, s, {i}, re.min, re.max)

RepEnds(a, s, P, min, max) ==
    (IF min <= 0 THEN P ELSE {})
    \cup (IF max > 0 /\ P # {}
          THEN RepEnds(a, s, UNION { Ends(a, s, j) \ {j} : j \in P }, min - 1, max - 1)
          ELSE {})

\* re.match(r"^...$", s): a match from the start of s to its end, or to the
\* newline that ends it
re_match(re, s) ==
    \E j \in Ends(re, s, 1) : j = Len(s) + 1 \/ (j = Len(s) /\ s[j] = "\n")

\* helpers.py line 41: (25[0-5]|2[0-4][0-9]|[01]?[0-9][0-9]?) and the pattern
\* of an IP address
Octet ==
    Alt(Cat(Lit("2"), Cat(Lit("5"), Chr({"0", "1", "2", "3", "4", "5"}))),
        Alt(Cat(Lit("2"), Cat(Chr({"0", "1", "2", "3", "4"}), Chr(Digit))),
            Cat(Opt(Chr({"0", "1"})), Cat(Chr(Digit), Opt(Chr(Digit))))))
ip_pattern == Cat(Rep(Cat(Octet, Lit(".")), 3, 3), Octet)

\* helpers.py line 47: the pattern of a URL
Label ==
    Cat(Chr(AlNum), Opt(Cat(Rep(Chr(AlNum \cup {"-"}), 0, 61), Chr(AlNum))))
HostName == Cat(Rep(Cat(Label, Lit(".")), 1, Many), Rep(Chr(Alpha), 2, Many))
HostQuad == Cat(Rep(Cat(Rep(Chr(Digit), 1, 3), Lit(".")), 3, 3), Rep(Chr(Digit), 1, 3))
Scheme == Cat(Lit("h"), Cat(Lit("t"), Cat(Lit("t"), Cat(Lit("p"), Opt(Lit("s"))))))
Slashes == Cat(Lit(":"), Cat(Lit("/"), Lit("/")))
Port == Opt(Cat(Lit(":"), Rep(Chr(Digit), 1, Many)))
Path == Opt(Cat(Lit("/"), Rep(Chr(Dot), 0, Many)))
url_pattern ==
    Cat(Scheme, Cat(Slashes, Cat(Alt(HostName, HostQuad), Cat(Port, Path))))

\* --------------------------------------------------------------- helpers
is_valid_url(t) == re_match(url_pattern, Chars[t])

is_valid_ip(t) == re_match(ip_pattern, Chars[t])

\* Python's None as the value of Task.error and ToolResult.error; an unset
\* Task.started_at or Task.completed_at is 0, a set one a clock reading >= 1
None == "None"

\* Orchestrator._create_initial_task
create_initial_subfinder ==
    [ name |-> "subfinder", status |-> PENDING, target |-> target, asset_id |-> 0,
      progress |-> 0, error |-> None, started_at |-> 0, completed_at |-> 0 ]

create_initial_task ==
    [ name |-> IF is_valid_url(target) THEN "httpx"
               ELSE IF is_valid_ip(target) THEN "nmap"
               ELSE "subfinder",
      status |-> PENDING,
      target |-> target,
      asset_id |-> 0,
      progress |-> 0,
      error |-> None,
      started_at |-> 0,
      completed_at |-> 0 ]

\* ------------------------------------------------------------ rules engine
Rule(n, ty, tool, prio, wp) ==
    [name |-> n, type |-> ty, target_tool |-> tool, priority |-> prio, wordpress |-> wp]

\* RulesEngine._init_default_rules
default_rules ==
    << Rule("domain_to_dns", "domain", "dnsrecon", 10, FALSE),
       Rule("domain_to_whois", "domain", "whois", 9, FALSE),
       Rule("domain_to_subfinder", "domain", "subfinder", 10, FALSE),
       Rule("domain_to_amass", "domain", "amass", 8, FALSE),
       Rule("subdomain_to_dnsx", "subdomain", "dnsx", 9, FALSE),
       Rule("subdomain_to_httpx", "subdomain", "httpx", 8, FALSE),
       Rule("http_to_whatweb", "http_service", "whatweb", 7, FALSE),
       Rule("http_to_wafw00f", "http_service", "wafw00f", 6, FALSE),
       Rule("http_to_nuclei", "http_service", "nuclei", 7, FALSE),
       Rule("wordpress_to_wpscan", "http_service", "wpscan", 8, TRUE),
       Rule("ip_to_nmap", "ip", "nmap", 9, FALSE),
       Rule("ip_to_rustscan", "ip", "rustscan", 8, FALSE) >>

\* ChainRule.condition of the default rules
condition(rule, a) ==
    /\ a.type = rule.type
    /\ rule.wordpress => a.tech = "WordPress"

\* matches.sort(key=priority, reverse=True): stable, higher priority first
RECURSIVE SortLastFirst(_)
SortLastFirst(ms) ==
    IF ms = <<>> THEN <<>>
    ELSE LET top == CHOOSE i \in 1..Len(ms) :
                        /\ \A j \in 1..Len(ms) : ms[j].priority <= ms[i].priority
                        /\ \A j \in (i+1)..Len(ms) : ms[j].priority < ms[i].priority
             rest == [k \in 1..(Len(ms)-1) |-> IF k < top THEN ms[k] ELSE ms[k+1]]
         IN  <<ms[top]>> \o SortLastFirst(rest)

RECURSIVE SortByPriority(_)
SortByPriority(ms) ==
    IF ms = <<>> THEN <<>>
    ELSE LET top == CHOOSE i \in 1..Len(ms) :
                        /\ \A j \in 1..Len(ms) : ms[j].priority <= ms[i].priority
                        /\ \A j \in 1..(i-1) : ms[j].priority < ms[i].priority
             rest == [k \in 1..(Len(ms)-1) |-> IF k < top THEN ms[k] ELSE ms[k+1]]
         IN  <<ms[top]>> \o SortByPriority(rest)

\* RulesEngine.get_next_tools
get_next_tools(a) ==
    SortByPriority(SelectSeq(rules, LAMBDA r : condition(r, a)))


\* ---------------------------------------------------------------- helpers
Range(s) == { s[i] : i \in DOMAIN s }

\* list.remove(x): drops the first occurrence of x
Remove(s, x) ==
    IF x \notin Range(s) THEN s
    ELSE LET i == CHOOSE k \in 1..Len(s) : s[k] = x /\ \A j \in 1..(k-1) : s[j] # x
         IN  [k \in 1..(Len(s)-1) |-> IF k < i THEN s[k] ELSE s[k+1]]

\* ToolResult.assets of the results an adapter stream may yield: no asset, one
\* asset, or one asset twice (adapters do not deduplicate).
ResultAssets ==
    {<<>>} \cup { <<a>> : a \in AssetPool }
    \cup { <<a, a>> : a \in {MkAsset("subdomain", "a.example.com")} }

\* ToolResult.metadata of a successful result: without a "progress" entry, or
\* with one
NoProgress == -1

ResultProgress == {NoProgress, 80}

\* the results with success=True an adapter stream may yield: assets without
\* metadata.progress, or a progress report without assets
Results ==
    { [assets |-> as, progress |-> NoProgress] : as \in ResultAssets }
    \cup { [assets |-> <<>>, progress |-> p] : p \in ResultProgress }

\* _execute_task, line 249: result.metadata.get("progress", 50.0)
metadata_get_progress(m) == IF m = NoProgress THEN 50 ELSE m

\* the results with success=False that ToolAdapter.execute yields, each of
\* them the last of its stream: the read of stdout timed out (lines 116-124),
\* parse_output failed on the output of a child that exited 0, or of one that
\* exited non-zero (lines 126-138)
FailureResults == {"timeout", "parse", "exit"}

\* ToolResult.error of these results
result_error(kind) ==
    CASE kind = "timeout" -> "Timeout after 300s"
      [] kind = "exit" -> "stderr"
      [] OTHER -> None

\* -------------------------------------------------------------- scan plan
\* ReconPlan.add_task
add_task_back(pend, t, priority) == Append(pend, t)

add_task(pend, t, priority) ==
    IF priority THEN <<t>> \o pend ELSE Append(pend, t)

\* datetime.now(): a reading later than every timestamp taken so far
RECURSIVE LastStamp(_)
LastStamp(ts) ==
    IF ts = <<>> THEN 0
    ELSE LET h == Head(ts)
             m == IF h.started_at > h.completed_at THEN h.started_at
                  ELSE h.completed_at
             r == LastStamp(Tail(ts))
         IN  IF m > r THEN m ELSE r

datetime_now(ts) == LastStamp(ts) + 1

\* ReconPlan.mark_running, the task part
mark_running_task(ts, t) ==
    [ts EXCEPT ![t].status = RUNNING, ![t].started_at = datetime_now(ts)]

\* ReconPlan.mark_running, the list part
mark_running_list(run, t) ==
    IF t \in Range(run) THEN run ELSE Append(run, t)

\* the progress left as it is when a task completes
mark_completed_keeps_progress(ts, t) ==
    [ts EXCEPT ![t].status = COMPLETED, ![t].completed_at = datetime_now(ts)]

\* ReconPlan.mark_completed, the task part
mark_completed_task(ts, t) ==
    [ts EXCEPT ![t].status = COMPLETED, ![t].completed_at = datetime_now(ts),
               ![t].progress = 100]

\* the error not recorded when a task fails
mark_failed_drops_error(ts, t, err) ==
    [ts EXCEPT ![t].status = FAILED, ![t].completed_at = datetime_now(ts)]

\* ReconPlan.mark_failed, the task part
mark_failed_task(ts, t, err) ==
    [ts EXCEPT ![t].status = FAILED, ![t].completed_at = datetime_now(ts),
               ![t].error = err]

\* ReconPlan.all_tasks
all_tasks == pending \o running \o completed \o failed \o skipped

\* ------------------------------------------------------------ work units
\* pc: the position; todo, cur: the assets of the current result still to
\* handle and the one being announced; nres: the successful results received;
\* prog: metadata.progress of the current result; last: "" or the kind of the
\* failed result that ended the stream
UnitIdle == [pc |-> "none", todo |-> <<>>, cur |-> 0, nres |-> 0,
             prog |-> NoProgress, last |-> ""]

UnitAt(p, n) == [pc |-> p, todo |-> <<>>, cur |-> 0, nres |-> n,
                 prog |-> NoProgress, last |-> ""]

UnitPcs == {"none", "created", "pub_started", "await_result", "pub_asset",
            "pub_progress", "pub_completed", "pub_failed", "done", "raised",
            "cancelled", "reading"}

\* a unit that was created and has neither returned, raised nor been cancelled
Live(u) == u.pc \notin {"none", "done", "raised", "cancelled"}

\* ---------------------------------------------------------- main loop
\* the exit test inverted: the loop goes on while nothing is running
QueueDrainedInverted(run) == Len(run) # 0

\* line 207: nothing pending; the loop ends when nothing is running
QueueDrained(run) == Len(run) = 0

\* the stopped flag never looked at
LoopStoppedNever(st) == FALSE

\* line 192: the loop condition, while not self._stopped
LoopStopped(st) == st

\* the paused flag never looked at
LoopPausedNever(pa) == FALSE

\* line 194: if self._paused
LoopPaused(pa) == pa

\* Orchestrator._orchestration_loop from the top of an iteration to its next
\* suspension (asyncio.sleep) or its exit.  create_task only schedules the
\* work unit: none of them runs, and plan.running does not change, before
\* the loop suspends or start() does.
RECURSIVE orchestration_loop(_, _)
orchestration_loop(pend, dispatched) ==
    IF LoopStopped(stopped)
    THEN [pending |-> pend, dispatched |-> dispatched, exit |-> "break"]
    ELSE IF LoopPaused(paused)
    THEN [pending |-> pend, dispatched |-> dispatched, exit |-> "sleep"]
    ELSE IF Len(running) >= max_parallel
         THEN [pending |-> pend, dispatched |-> dispatched, exit |-> "sleep"]
    ELSE IF pend = <<>>
         THEN IF QueueDrained(running)
              THEN [pending |-> pend, dispatched |-> dispatched, exit |-> "break"]
              ELSE [pending |-> pend, dispatched |-> dispatched, exit |-> "sleep"]
    ELSE orchestration_loop(Tail(pend), Append(dispatched, Head(pend)))

\* start() from the call of _orchestration_loop on: the loop runs to its next
\* sleep, or it exits and start() stamps the session and publishes
\* SCAN_COMPLETED.
RunLoop(pend) ==
    LET r == orchestration_loop(pend, <<>>)
    IN  /\ pending' = r.pending
        /\ units' = [t \in DOMAIN units |->
                        IF t \in Range(r.dispatched) THEN UnitAt("created", 0)
                        ELSE units[t]]
        /\ IF r.exit = "sleep"
           THEN /\ mainpc' = "sleep"
                /\ UNCHANGED << completed_at, history >>
           ELSE /\ mainpc' = "pub_scan_completed"
                /\ completed_at' = TRUE
                /\ history' = publish(history, ScanEvent("scan_completed"))

\* start(), lines 126-132
Start ==
    /\ mainpc = "init"
    /\ history' = publish(history, ScanEvent("scan_started"))
    /\ mainpc' = "pub_scan_started"
    /\ UNCHANGED << configVars, busVars, adapterVars, clientVars, storeVars, tasks, assets, completed_at, pending, planLists,
                    paused, stopped, seen_assets, units, ingested, rulesVars, streamVars >>

\* start(), lines 132-162, after the subscribers of SCAN_STARTED returned
\* (ok) or one of them raised
ScanStartedPublished(ok) ==
    /\ mainpc = "pub_scan_started"
    /\ IF ok
       THEN /\ tasks' = Append(tasks, create_initial_task)
            /\ RunLoop(add_task(pending, Len(tasks) + 1, FALSE))
       ELSE /\ mainpc' = "raised"
            /\ UNCHANGED << tasks, pending, units, completed_at, history >>
    /\ UNCHANGED << configVars, busVars, adapterVars, clientVars, storeVars, assets, planLists, paused, stopped, seen_assets,
                    ingested, rulesVars, streamVars >>

\* _orchestration_loop resumed after asyncio.sleep(1)
LoopWake ==
    /\ mainpc = "sleep"
    /\ RunLoop(pending)
    /\ UNCHANGED << configVars, busVars, adapterVars, clientVars, storeVars, tasks, assets, planLists, paused, stopped,
                    seen_assets, ingested, rulesVars, streamVars >>

\* start(), lines 152-164, after the subscribers of SCAN_COMPLETED
ScanCompletedPublished(ok) ==
    /\ mainpc = "pub_scan_completed"
    /\ mainpc' = IF ok THEN "done" ELSE "raised"
    /\ UNCHANGED << configVars, busVars, adapterVars, clientVars, storeVars, tasks, assets, completed_at, pending, planLists,
                    paused, stopped, seen_assets, history, units, ingested, rulesVars, streamVars >>

\* Orchestrator.pause
pause ==
    /\ paused' = TRUE
    /\ UNCHANGED << configVars, busVars, adapterVars, clientVars, storeVars, tasks, assets, completed_at, pending, planLists,
                    stopped, seen_assets, history, mainpc, units, ingested, rulesVars, streamVars >>

\* Orchestrator.resume
resume ==
    /\ paused' = FALSE
    /\ UNCHANGED << configVars, busVars, adapterVars, clientVars, storeVars, tasks, assets, completed_at, pending, planLists,
                    stopped, seen_assets, history, mainpc, units, ingested, rulesVars, streamVars >>

\* a stop() that also clears the paused flag
stop_resumes ==
    /\ stopped' = TRUE
    /\ paused' = FALSE
    /\ UNCHANGED << configVars, busVars, adapterVars, clientVars, storeVars, tasks, assets, completed_at, pending, planLists,
                    seen_assets, history, mainpc, units, ingested, rulesVars, streamVars >>

\* Orchestrator.stop
stop ==
    /\ stopped' = TRUE
    /\ UNCHANGED << configVars, busVars, adapterVars, clientVars, storeVars, tasks, assets, completed_at, pending, planLists,
                    paused, seen_assets, history, mainpc, units, ingested, rulesVars, streamVars >>

\* cli.py: asyncio.run(orchestrator.start()) cancels the work units that are
\* still suspended when start() has returned or raised; a unit created in
\* start()'s last run gets its first run before that.  CancelledError is not
\* an Exception: _execute_task does not catch it and marks nothing.
Teardown ==
    /\ mainpc \in {"done", "raised"}
    /\ \A t \in DOMAIN units : units[t].pc # "created"
    /\ \E t \in DOMAIN units : Live(units[t])
    /\ units' = [t \in DOMAIN units |->
                    IF Live(units[t]) THEN [units[t] EXCEPT !.pc = "cancelled"]
                    ELSE units[t]]
    /\ UNCHANGED << configVars, busVars, adapterVars, clientVars, storeVars, tasks, assets, completed_at, pending, planLists,
                    paused, stopped, seen_assets, history, mainpc, ingested, rulesVars, streamVars >>


\* ------------------------------------------------------- asset ingestion
\* _handle_asset, line 280: the dedup key is the string "<type>:<value>"
asset_key(a) == a.type \o ":" \o a.value

\* the dedup test left out: no asset is ever taken as seen
AlreadySeenNever(a, seen) == FALSE

\* _handle_asset, lines 281-282: is the asset dropped as already seen
AlreadySeen(a, seen) == asset_key(a) \in seen

\* the number of leading assets of todo that _handle_asset drops
RECURSIVE LeadingSeen(_, _)
LeadingSeen(todo, seen) ==
    IF todo = <<>> THEN 0
    ELSE IF AlreadySeen(Head(todo), seen) THEN 1 + LeadingSeen(Tail(todo), seen)
    ELSE 0

\* the calls of _handle_asset counted, after it was called with each of as
Ingested(as) ==
    [a \in AssetPool |->
        LET n == ingested[a] + Cardinality({i \in DOMAIN as : as[i] = a})
        IN  IF n > 3 THEN 3 ELSE n]

\* _execute_task, lines 241-256, from the asset loop on, with todo the assets
\* of the current result still to handle: the assets already seen are
\* dropped; the first new one is keyed, appended to the session and
\* announced (_handle_asset, lines 280-298); when none is left the task's
\* progress is set from the result's metadata and the progress event is
\* published.  ts is session.tasks as the caller leaves it.
Ingest(t, todo, n, prog, ts) ==
    LET k == LeadingSeen(todo, seen_assets)
        rest == SubSeq(todo, k + 1, Len(todo))
    IN  IF rest = <<>>
        THEN /\ ingested' = Ingested(todo)
             /\ UNCHANGED << seen_assets, assets >>
             /\ tasks' = [ts EXCEPT ![t].progress = metadata_get_progress(prog)]
             /\ history' = publish(history, TaskEvent("task_progress", t))
             /\ units' = [units EXCEPT ![t] = UnitAt("pub_progress", n)]
        ELSE /\ ingested' = Ingested(SubSeq(todo, 1, k + 1))
             /\ seen_assets' = seen_assets \cup {asset_key(Head(rest))}
             /\ assets' = Append(assets, Head(rest))
             /\ tasks' = ts
             /\ history' = publish(history, AssetEvent(Head(rest)))
             /\ units' = [units EXCEPT ![t] =
                            [pc |-> "pub_asset", todo |-> Tail(rest),
                             cur |-> Len(assets) + 1, nres |-> n,
                             prog |-> prog, last |-> ""]]

\* _handle_asset, lines 303-316: one child task per matching rule whose tool
\* is registered and available, in get_next_tools order, for the asset with
\* id aid and value va
RECURSIVE ChainFor(_, _, _, _, _)
ChainFor(ms, ts, pend, aid, va) ==
    IF ms = <<>> THEN [tasks |-> ts, pending |-> pend]
    ELSE IF ~ToolRegistry_get(Head(ms).target_tool) \/ ~is_available(Head(ms).target_tool)
         THEN ChainFor(Tail(ms), ts, pend, aid, va)
    ELSE ChainFor(Tail(ms),
               Append(ts, [ name |-> Head(ms).target_tool,
                            status |-> PENDING,
                            target |-> va,
                            asset_id |-> aid,
                            progress |-> 0,
                            error |-> None,
                            started_at |-> 0,
                            completed_at |-> 0 ]),
               add_task(pend, Len(ts) + 1, Head(ms).priority > 8),
               aid, va)

\* the mode test left out: every mode chains
ChainsAlways(m) == TRUE

\* _handle_asset, line 301: only AUTO mode chains
Chains(m) == m = AUTO

\* the same for an asset that is in session.assets
Chain(ms, ts, pend, aid) == ChainFor(ms, ts, pend, aid, assets[aid].value)

\* the except branch left out: the exception leaves the work unit and
\* nothing is marked or published
FailPropagates(t, err) ==
    /\ units' = [units EXCEPT ![t].pc = "raised"]
    /\ UNCHANGED << configVars, busVars, adapterVars, clientVars, storeVars, tasks, assets, completed_at, pending, planLists,
                    paused, stopped, seen_assets, history, mainpc, ingested, rulesVars, streamVars >>

\* _execute_task, lines 267-275: the except branch
Fail(t, err) ==
    /\ tasks' = mark_failed_task(tasks, t, err)
    /\ running' = Remove(running, t)
    /\ failed' = Append(failed, t)
    /\ history' = publish(history, TaskEvent("task_failed", t))
    /\ units' = [units EXCEPT ![t] =
                    [UnitAt("pub_failed", units[t].nres) EXCEPT !.last = units[t].last]]
    /\ UNCHANGED << configVars, busVars, adapterVars, clientVars, storeVars, assets, completed_at, pending, completed, skipped,
                    paused, stopped, seen_assets, mainpc, ingested, rulesVars, streamVars >>

\* _execute_task, lines 217-233: the work unit's first run
ExecuteTask(t) ==
    /\ units[t].pc = "created"
    /\ IF ~ToolRegistry_get(tasks[t].name)
       THEN /\ tasks' = mark_failed_task(tasks, t, "Tool not found")
            /\ running' = Remove(running, t)
            /\ failed' = Append(failed, t)
            /\ units' = [units EXCEPT ![t] = UnitAt("done", 0)]
            /\ UNCHANGED history
       ELSE IF ~is_available(tasks[t].name)
       THEN /\ tasks' = mark_failed_task(tasks, t, "Tool not available")
            /\ running' = Remove(running, t)
            /\ failed' = Append(failed, t)
            /\ units' = [units EXCEPT ![t] = UnitAt("done", 0)]
            /\ UNCHANGED history
       ELSE /\ tasks' = mark_running_task(tasks, t)
            /\ running' = mark_running_list(running, t)
            /\ history' = publish(history, TaskEvent("task_started", t))
            /\ units' = [units EXCEPT ![t] = UnitAt("pub_started", 0)]
            /\ UNCHANGED failed
    /\ UNCHANGED << configVars, busVars, adapterVars, clientVars, storeVars, assets, completed_at, pending, completed, skipped,
                    paused, stopped, seen_assets, mainpc, ingested, rulesVars, streamVars >>

\* _execute_task, lines 227-238, after the subscribers of TASK_STARTED: the
\* publish is outside the try, so a raising subscriber ends the work unit
TaskStartedPublished(t, ok) ==
    /\ units[t].pc = "pub_started"
    /\ units' = [units EXCEPT ![t] = UnitAt(IF ok THEN "await_result" ELSE "raised", 0)]
    /\ UNCHANGED << configVars, busVars, adapterVars, clientVars, storeVars, tasks, assets, completed_at, pending, planLists,
                    paused, stopped, seen_assets, history, mainpc, ingested, rulesVars, streamVars >>

\* _execute_task, lines 258-265: the stream is exhausted, the task is marked
\* completed and TASK_COMPLETED published; kind is "" or the kind of the
\* failed result the stream ended with
Complete(t, kind) ==
    /\ tasks' = mark_completed_task(tasks, t)
    /\ running' = Remove(running, t)
    /\ completed' = Append(completed, t)
    /\ history' = publish(history, TaskEvent("task_completed", t))
    /\ units' = [units EXCEPT ![t] =
                    [UnitAt("pub_completed", units[t].nres) EXCEPT !.last = kind]]
    /\ UNCHANGED << configVars, busVars, adapterVars, clientVars, storeVars, assets, completed_at, pending, failed, skipped,
                    paused, stopped, seen_assets, mainpc, ingested, rulesVars, streamVars >>

\* _execute_task, line 238 and lines 258-265: the adapter stream ends
StreamEnd(t) ==
    /\ units[t].pc = "await_result"
    /\ Complete(t, "")

\* _execute_task, lines 238-239 and 258-265, with ToolAdapter.execute, lines
\* 116-124 and 126-154: the adapter yields a result with success=False and
\* returns; the result fails the test of line 239 and nothing is done with
\* it, the stream is exhausted and the task completes
StreamFails(t, kind) ==
    /\ units[t].pc = "await_result"
    /\ Complete(t, kind)

\* _execute_task, line 238: the adapter stream raises
StreamRaises(t) ==
    /\ units[t].pc = "await_result"
    /\ Fail(t, "adapter error")

\* _execute_task, lines 238-256: the adapter stream yields a result with
\* success=True, assets as and metadata.progress prog
StreamYields(t, as, prog) ==
    /\ units[t].pc = "await_result"
    /\ units[t].nres < MaxResults
    /\ Ingest(t, as, units[t].nres + 1, prog, tasks)
    /\ UNCHANGED << configVars, busVars, adapterVars, clientVars, storeVars, completed_at, pending, planLists,
                    paused, stopped, mainpc, rulesVars, streamVars >>

\* _handle_asset, lines 292-316, after the subscribers of ASSET_DISCOVERED,
\* then the rest of the result's assets
AssetPublished(t, ok) ==
    /\ units[t].pc = "pub_asset"
    /\ IF ok
       THEN LET c == IF Chains(mode)
                     THEN Chain(get_next_tools(assets[units[t].cur]), tasks, pending,
                                units[t].cur)
                     ELSE [tasks |-> tasks, pending |-> pending]
            IN  /\ Len(c.tasks) <= MaxTasks
                /\ pending' = c.pending
                /\ Ingest(t, units[t].todo, units[t].nres, units[t].prog, c.tasks)
                /\ UNCHANGED << configVars, busVars, adapterVars, clientVars, storeVars, completed_at, planLists, paused, stopped,
                                mainpc, rulesVars, streamVars >>
       ELSE Fail(t, "subscriber error")

\* _execute_task, lines 250-256, after the subscribers of TASK_PROGRESS
ProgressPublished(t, ok) ==
    /\ units[t].pc = "pub_progress"
    /\ IF ok
       THEN /\ units' = [units EXCEPT ![t] = UnitAt("await_result", units[t].nres)]
            /\ UNCHANGED << configVars, busVars, adapterVars, clientVars, storeVars, tasks, assets, completed_at, pending,
                            planLists, paused, stopped, seen_assets, history,
                            mainpc, ingested, rulesVars, streamVars >>
       ELSE Fail(t, "subscriber error")

\* _execute_task, lines 259-275, after the subscribers of TASK_COMPLETED: the
\* publish is inside the try
CompletedPublished(t, ok) ==
    /\ units[t].pc = "pub_completed"
    /\ IF ok
       THEN /\ units' = [units EXCEPT ![t].pc = "done"]
            /\ UNCHANGED << configVars, busVars, adapterVars, clientVars, storeVars, tasks, assets, completed_at, pending,
                            planLists, paused, stopped, seen_assets, history,
                            mainpc, ingested, rulesVars, streamVars >>
       ELSE Fail(t, "subscriber error")

\* _execute_task, lines 269-275, after the subscribers of TASK_FAILED
FailedPublished(t, ok) ==
    /\ units[t].pc = "pub_failed"
    /\ units' = [units EXCEPT ![t].pc = IF ok THEN "done" ELSE "raised"]
    /\ UNCHANGED << configVars, busVars, adapterVars, clientVars, storeVars, tasks, assets, completed_at, pending, planLists,
                    paused, stopped, seen_assets, history, mainpc, ingested, rulesVars, streamVars >>

\* ----------------------------------------------------- history readers
\* the client holds no list from get_history; alias says that the list held
\* is the bus's own _history object, list is the content of a list of its own
NoList == [held |-> FALSE, alias |-> FALSE, list |-> <<>>]

\* ------------------------------------------------------------- database
\* _init_schema on a new file: four empty tables; a child table is the
\* sequence of its rows in rowid order
EmptyDb == [sessions |-> <<>>, tasks |-> <<>>, assets |-> <<>>, findings |-> <<>>]

\* ------------------------------------------------------- tool adapter
\* the callers of execute() on the one adapter the registry holds for a tool
\* name: a child process is named after the call that spawned it
Callers == {"u1", "u2"}

\* the numbers of stdout lines a child may write
ChildLines == {0, 1}

\* a child process: not spawned, running, exited by itself or killed
NoChild == [state |-> "none", lines |-> 0, killer |-> ""]
Ended(ch) == ch.state \in {"exited", "killed"}

\* Process.kill: a running child gets the signal; for a child that has ended
\* the call raises ProcessLookupError
kill(chs, p, who) ==
    IF chs[p].state = "running"
    THEN [chs EXCEPT ![p].state = "killed", ![p].killer = who]
    ELSE chs

\* a call of execute(): its position and the child whose pipe or exit it
\* is suspended on
ExecIdle == [pc |-> "idle", on |-> None]
YieldPcs == {"y_unavailable", "y_partial", "y_timeout", "y_final", "y_error"}
AwaitPcs == {"spawning", "reading", "stderr", "waiting"}

\* ------------------------------------------------------------ specification
\* Orchestrator.__init__ and ReconPlan.__init__, EventBus.__init__,
\* ToolAdapter.__init__, Database.__init__ on a new file, RulesEngine.__init__
Constructed ==
    /\ tasks = <<>>
    /\ assets = <<>>
    /\ completed_at = FALSE
    /\ pending = <<>>
    /\ running = <<>>
    /\ completed = <<>>
    /\ failed = <<>>
    /\ skipped = <<>>
    /\ paused = FALSE
    /\ stopped = FALSE
    /\ seen_assets = {}
    /\ history = <<>>
    /\ mainpc = "init"
    /\ units = [t \in 1..MaxTasks |-> UnitIdle]
    /\ ingested = [a \in AssetPool |-> 0]
    /\ subscribers = << >>
    /\ calls = [p \in Publishers |-> CallIdle]
    /\ process = None
    /\ children = [p \in Callers |-> NoChild]
    /\ execs = [c \in Callers |-> ExecIdle]
    /\ canceller = [pc |-> "idle", on |-> None]
    /\ got = NoList
    /\ db = EmptyDb
    /\ saved = <<>>
    /\ loaded = <<>>
    /\ rules = default_rules
    /\ matched = <<>>
    /\ output = <<>>
    /\ stdout_data = <<>>
    /\ findings = <<>>

\* the orchestrators a client may construct
Init ==
    /\ target \in Targets
    /\ mode \in ScanMode
    /\ max_parallel \in 1..MaxParallel
    /\ registry \in Registries
    /\ Constructed

Next ==
    \/ Start
    \/ \E ok \in BOOLEAN : ScanStartedPublished(ok)
    \/ LoopWake
    \/ \E ok \in BOOLEAN : ScanCompletedPublished(ok)
    \/ pause
    \/ resume
    \/ stop
    \/ Teardown
    \/ \E t \in 1..MaxTasks : ExecuteTask(t)
    \/ \E t \in 1..MaxTasks, ok \in BOOLEAN : TaskStartedPublished(t, ok)
    \/ \E t \in 1..MaxTasks : StreamEnd(t)
    \/ \E t \in 1..MaxTasks : StreamRaises(t)
    \/ \E t \in 1..MaxTasks, kind \in FailureResults : StreamFails(t, kind)
    \/ \E t \in 1..MaxTasks, r \in Results : StreamYields(t, r.assets, r.progress)
    \/ \E t \in 1..MaxTasks, ok \in BOOLEAN : AssetPublished(t, ok)
    \/ \E t \in 1..MaxTasks, ok \in BOOLEAN : ProgressPublished(t, ok)
    \/ \E t \in 1..MaxTasks, ok \in BOOLEAN : CompletedPublished(t, ok)
    \/ \E t \in 1..MaxTasks, ok \in BOOLEAN : FailedPublished(t, ok)

Spec == Init /\ [][Next]_vars


\* ------------------------------------------------- the event bus alone
\* everything but the bus
orchVars == << configVars, tasks, assets, completed_at, pending, planLists,
               paused, stopped, seen_assets, mainpc, units, ingested >>

\* EventBus.subscribe
subscribe(ty, cb) ==
    /\ Registrations(subscribers) < MaxSubscribers
    /\ subscribers' = [x \in DOMAIN subscribers \cup {ty} |->
                          IF x = ty THEN Append(SubscribersOf(subscribers, ty), cb)
                          ELSE subscribers[x]]
    /\ calls' = Disturbed(ty)
    /\ UNCHANGED << orchVars, adapterVars, clientVars, storeVars, history, rulesVars, streamVars >>

\* EventBus.unsubscribe of a registered callback: list.remove drops its first
\* registration.  (For an event type never subscribed to it does nothing; for
\* a callback that is not in the list list.remove raises ValueError: the bus
\* is unchanged in both cases.)
unsubscribe(ty, cb) ==
    /\ ty \in DOMAIN subscribers
    /\ cb \in Range(subscribers[ty])
    /\ subscribers' = [subscribers EXCEPT ![ty] = Remove(@, cb)]
    /\ calls' = Disturbed(ty)
    /\ UNCHANGED << orchVars, adapterVars, clientVars, storeVars, history, rulesVars, streamVars >>

\* EventBus.publish called by publisher p with event e, up to its return, its
\* raise or its first suspension
EventBus_publish(p, e) ==
    /\ calls[p].pc \in {"idle", "returned", "raised"}
    /\ Len(history) < MaxPublishes
    /\ history' = publish(history, e)
    /\ calls' = [calls EXCEPT ![p] =
                    Deliver([pc |-> "calling", event |-> e, idx |-> 1,
                             subs |-> SubscribersOf(subscribers, e.type),
                             invoked |-> <<>>, stable |-> TRUE],
                            SubscribersOf(subscribers, e.type))]
    /\ UNCHANGED << orchVars, adapterVars, clientVars, storeVars, subscribers, rulesVars, streamVars >>

\* EventBus.publish, line 63: the awaited subscriber finishes, by returning
\* or by raising, and the loop goes on with the list as it is now
CallbackDone(p) ==
    /\ calls[p].pc = "awaiting"
    /\ calls' = [calls EXCEPT ![p] =
                    IF calls[p].invoked[Len(calls[p].invoked)].raises
                    THEN [calls[p] EXCEPT !.pc = "raised"]
                    ELSE Deliver([calls[p] EXCEPT !.idx = @ + 1],
                                 SubscribersOf(subscribers, calls[p].event.type))]
    /\ UNCHANGED << orchVars, adapterVars, clientVars, storeVars, subscribers, history, rulesVars, streamVars >>

\* a bus of its own, with the orchestrator never started
BusInit ==
    /\ Init
    /\ target = "example.com"
    /\ mode = AUTO
    /\ max_parallel = 1
    /\ registry.available = {"subfinder", "httpx", "dnsx"}

BusNext ==
    \/ \E ty \in BusEventTypes, cb \in Callbacks : subscribe(ty, cb)
    \/ \E ty \in BusEventTypes, cb \in Callbacks : unsubscribe(ty, cb)
    \/ \E p \in OnePublisher, e \in BusEvents : EventBus_publish(p, e)
    \/ \E p \in OnePublisher : CallbackDone(p)

BusSpec == BusInit /\ [][BusNext]_vars


\* ------------------------------------------- the pending queue alone
\* the tools of the rules for domain and subdomain assets
QueueTools == {"dnsrecon", "whois", "subfinder", "amass", "dnsx"}

\* the assets handed to _handle_asset
QueueAssets == { MkAsset("domain", "example.org"), MkAsset("subdomain", "a.example.com") }

\* _handle_asset as a whole, in AUTO mode and with subscribers that return:
\* an asset already seen is dropped, a new one is keyed, appended, announced
\* and chained
handle_asset(a) ==
    /\ IF AlreadySeen(a, seen_assets)
       THEN UNCHANGED << seen_assets, assets, history, tasks, pending >>
       ELSE LET c == ChainFor(get_next_tools(a), tasks, pending, Len(assets) + 1,
                              a.value)
            IN  /\ seen_assets' = seen_assets \cup {asset_key(a)}
                /\ assets' = Append(assets, a)
                /\ history' = publish(history, AssetEvent(a))
                /\ tasks' = c.tasks
                /\ pending' = c.pending
    /\ UNCHANGED << configVars, busVars, adapterVars, clientVars, storeVars, completed_at, planLists, paused, stopped,
                    mainpc, units, ingested, rulesVars, streamVars >>

\* ReconPlan.get_next_task: the head of plan.pending is popped
get_next_task ==
    /\ pending # <<>>
    /\ pending' = Tail(pending)
    /\ UNCHANGED << configVars, busVars, adapterVars, clientVars, storeVars, tasks, assets, completed_at, planLists,
                    paused, stopped, seen_assets, history, mainpc, units, ingested, rulesVars, streamVars >>

\* an orchestrator in AUTO mode, not started, whose registry holds any of the
\* tools of the rules, any of them available
QueueInit ==
    /\ target = "example.com"
    /\ mode = AUTO
    /\ max_parallel = 1
    /\ \E S \in SUBSET QueueTools, A \in SUBSET QueueTools :
          A \subseteq S /\ registry = [registered |-> S, available |-> A]
    /\ Constructed

QueueNext ==
    \/ \E a \in QueueAssets : handle_asset(a)
    \/ get_next_task

QueueSpec == QueueInit /\ [][QueueNext]_vars


\* ------------------------------------------- one tool adapter alone
\* execute(), lines 99-104: the head of the read loop evaluates
\* self._process.stdout.readline(); with the handle None that is an
\* AttributeError, with another call suspended on that stream a RuntimeError,
\* and both are caught at line 142 and yielded as an error result
readline(ex, c, handle) ==
    IF handle = None
       \/ \E d \in Callers \ {c} : ex[d].pc = "reading" /\ ex[d].on = handle
    THEN [ex EXCEPT ![c] = [pc |-> "y_error", on |-> None]]
    ELSE [ex EXCEPT ![c] = [pc |-> "reading", on |-> handle]]

\* execute(), lines 148-154: the finally clause kills whatever process the
\* handle names and clears the handle
finally(chs, c, handle) ==
    IF handle = None THEN chs ELSE kill(chs, handle, c)

\* execute() is called and runs up to its first suspension: the first result
\* of an unavailable tool, or the spawn of the child
execute(c, available) ==
    /\ execs[c].pc = "idle"
    /\ execs' = [execs EXCEPT ![c].pc =
                    IF available THEN "spawning" ELSE "y_unavailable"]
    /\ UNCHANGED << process, children, canceller >>
    /\ UNCHANGED << orchVars, busVars, history, clientVars, storeVars, rulesVars, streamVars >>

\* execute(), lines 89-93: create_subprocess_exec returns the child, which
\* becomes the adapter's handle, or raises
Spawned(c, ok, n) ==
    /\ execs[c].pc = "spawning"
    /\ IF ok
       THEN /\ process' = c
            /\ children' = [children EXCEPT
                               ![c] = [state |-> "running", lines |-> n, killer |-> ""]]
            /\ execs' = readline(execs, c, c)
       ELSE /\ execs' = [execs EXCEPT ![c].pc = "y_error"]
            /\ UNCHANGED << process, children >>
    /\ UNCHANGED canceller
    /\ UNCHANGED << orchVars, busVars, history, clientVars, storeVars, rulesVars, streamVars >>

\* execute(), lines 105-114: a line arrives on the stream the call reads;
\* parse_partial has something to yield or the loop reads on
ReadLine(c, partial) ==
    /\ execs[c].pc = "reading"
    /\ children[execs[c].on].lines > 0
    /\ children' = [children EXCEPT ![execs[c].on].lines = @ - 1]
    /\ execs' = IF partial
                THEN [execs EXCEPT ![c] = [pc |-> "y_partial", on |-> None]]
                ELSE readline(execs, c, process)
    /\ UNCHANGED << process, canceller >>
    /\ UNCHANGED << orchVars, busVars, history, clientVars, storeVars, rulesVars, streamVars >>

\* execute(), lines 105-106 and 127: end of the stream the call reads; the
\* call goes on to self._process.stderr.read()
ReadEOF(c) ==
    /\ execs[c].pc = "reading"
    /\ children[execs[c].on].lines = 0
    /\ Ended(children[execs[c].on])
    /\ execs' = IF process = None
                   \/ \E d \in Callers \ {c} : execs[d].pc = "stderr" /\ execs[d].on = process
                THEN [execs EXCEPT ![c] = [pc |-> "y_error", on |-> None]]
                ELSE [execs EXCEPT ![c] = [pc |-> "stderr", on |-> process]]
    /\ UNCHANGED << process, children, canceller >>
    /\ UNCHANGED << orchVars, busVars, history, clientVars, storeVars, rulesVars, streamVars >>

\* execute(), lines 116-124: no line within the timeout; the process the
\* handle names is killed, without a wait for its exit, and the failure is
\* yielded.  A handle that names an ended process makes kill() raise, which
\* line 142 turns into an error result.
ReadTimeout(c) ==
    /\ execs[c].pc = "reading"
    /\ children[execs[c].on].state = "running"
    /\ children[execs[c].on].lines = 0
    /\ IF process = None
       THEN /\ execs' = [execs EXCEPT ![c] = [pc |-> "y_timeout", on |-> None]]
            /\ UNCHANGED children
       ELSE /\ children' = kill(children, process, c)
            /\ execs' = [execs EXCEPT ![c] =
                            [pc |-> IF Ended(children[process]) THEN "y_error"
                                    ELSE "y_timeout",
                             on |-> None]]
    /\ UNCHANGED << process, canceller >>
    /\ UNCHANGED << orchVars, busVars, history, clientVars, storeVars, rulesVars, streamVars >>

\* execute(), lines 127-131: stderr of the process is read to its end; the
\* call goes on to self._process.wait()
StderrRead(c) ==
    /\ execs[c].pc = "stderr"
    /\ Ended(children[execs[c].on])
    /\ execs' = IF process = None
                THEN [execs EXCEPT ![c] = [pc |-> "y_error", on |-> None]]
                ELSE [execs EXCEPT ![c] = [pc |-> "waiting", on |-> process]]
    /\ UNCHANGED << process, children, canceller >>
    /\ UNCHANGED << orchVars, busVars, history, clientVars, storeVars, rulesVars, streamVars >>

\* execute(), lines 131-140: the process waited for has exited; the output
\* is parsed, self._process.returncode is read and the final result yielded
WaitDone(c) ==
    /\ execs[c].pc = "waiting"
    /\ Ended(children[execs[c].on])
    /\ execs' = [execs EXCEPT ![c] =
                    [pc |-> IF process = None THEN "y_error" ELSE "y_final",
                     on |-> None]]
    /\ UNCHANGED << process, children, canceller >>
    /\ UNCHANGED << orchVars, busVars, history, clientVars, storeVars, rulesVars, streamVars >>

\* the consumer asks for the next result: after a partial result the loop
\* reads on, after any other the generator runs to its end, through the
\* finally clause when it is inside the try statement
Resume(c) ==
    /\ execs[c].pc \in YieldPcs
    /\ CASE execs[c].pc = "y_partial" ->
              /\ execs' = readline(execs, c, process)
              /\ UNCHANGED << process, children >>
         [] execs[c].pc = "y_unavailable" ->
              /\ execs' = [execs EXCEPT ![c].pc = "returned"]
              /\ UNCHANGED << process, children >>
         [] OTHER ->
              /\ children' = finally(children, c, process)
              /\ process' = None
              /\ execs' = [execs EXCEPT ![c].pc = "returned"]
    /\ UNCHANGED canceller
    /\ UNCHANGED << orchVars, busVars, history, clientVars, storeVars, rulesVars, streamVars >>

\* the stream is closed where it is suspended: GeneratorExit at a yield when
\* the consumer has abandoned it, CancelledError at an await when the
\* consumer's task is cancelled; neither is an Exception, so only the finally
\* clause runs
Closed(c) ==
    /\ execs[c].pc \in (YieldPcs \cup AwaitPcs) \ {"y_unavailable"}
    /\ children' = finally(children, c, process)
    /\ process' = None
    /\ execs' = [execs EXCEPT ![c] = [pc |-> "returned", on |-> None]]
    /\ UNCHANGED canceller
    /\ UNCHANGED << orchVars, busVars, history, clientVars, storeVars, rulesVars, streamVars >>

\* the child ends by itself
ChildExits(p) ==
    /\ children[p].state = "running"
    /\ children' = [children EXCEPT ![p].state = "exited"]
    /\ UNCHANGED << process, execs, canceller >>
    /\ UNCHANGED << orchVars, busVars, history, clientVars, storeVars, rulesVars, streamVars >>

\* cancel(), lines 158-161: with a handle, the process it names is killed
\* and its exit awaited; kill() raising for an ended process is swallowed
\* and the handle cleared at once
cancel ==
    /\ canceller.pc = "idle"
    /\ process # None
    /\ children' = kill(children, process, "cancel")
    /\ IF Ended(children[process])
       THEN /\ process' = None
            /\ canceller' = [pc |-> "idle", on |-> None]
       ELSE /\ canceller' = [pc |-> "waiting", on |-> process]
            /\ UNCHANGED process
    /\ UNCHANGED execs
    /\ UNCHANGED << orchVars, busVars, history, clientVars, storeVars, rulesVars, streamVars >>

\* cancel(), lines 161-165: the killed process has exited and the handle,
\* whatever it names by now, is cleared
CancelDone ==
    /\ canceller.pc = "waiting"
    /\ Ended(children[canceller.on])
    /\ process' = None
    /\ canceller' = [pc |-> "idle", on |-> None]
    /\ UNCHANGED << children, execs >>
    /\ UNCHANGED << orchVars, busVars, history, clientVars, storeVars, rulesVars, streamVars >>

\* one adapter of a registry that is never handed to a started orchestrator
AdapterInit ==
    /\ target = "example.com"
    /\ mode = AUTO
    /\ max_parallel = 1
    /\ registry = [registered |-> {"subfinder"}, available |-> {"subfinder"}]
    /\ Constructed

AdapterNext ==
    \/ \E c \in Callers, available \in BOOLEAN : execute(c, available)
    \/ \E c \in Callers, ok \in BOOLEAN, n \in ChildLines : Spawned(c, ok, n)
    \/ \E c \in Callers, partial \in BOOLEAN : ReadLine(c, partial)
    \/ \E c \in Callers : ReadEOF(c)
    \/ \E c \in Callers : ReadTimeout(c)
    \/ \E c \in Callers : StderrRead(c)
    \/ \E c \in Callers : WaitDone(c)
    \/ \E c \in Callers : Resume(c)
    \/ \E c \in Callers : Closed(c)
    \/ \E p \in Callers : ChildExits(p)
    \/ cancel
    \/ CancelDone

AdapterSpec == AdapterInit /\ [][AdapterNext]_vars


\* ------------------------------------------- the event history alone
\* the number of the next event of a publisher that numbers its events
NextSeq(h) == IF h = <<>> THEN 1 ELSE h[Len(h)].task + 1

\* EventBus.publish on a bus without subscribers, called with the next
\* numbered event
publish_numbered ==
    /\ NextSeq(history) <= MaxSeq
    /\ history' = publish(history, TaskEvent("task_progress", NextSeq(history)))
    /\ UNCHANGED << orchVars, busVars, adapterVars, clientVars, storeVars, rulesVars, streamVars >>

\* a bus of its own, nothing subscribed
HistoryInit ==
    /\ target = "example.com"
    /\ mode = AUTO
    /\ max_parallel = 1
    /\ registry = [registered |-> {"subfinder"}, available |-> {"subfinder"}]
    /\ Constructed

HistoryNext == publish_numbered

HistorySpec == HistoryInit /\ [][HistoryNext]_vars


\* ------------------------------------- publishes of concurrent work units
\* a work unit publishes the completion of the next task
publish_next(p) == EventBus_publish(p, TaskEvent("task_completed", NextSeq(history)))

\* a bus of its own with two work units publishing on it
OrderInit == BusInit

OrderNext ==
    \/ \E cb \in Callbacks : subscribe("task_completed", cb)
    \/ \E p \in Publishers : publish_next(p)
    \/ \E p \in Publishers : CallbackDone(p)

OrderSpec == OrderInit /\ [][OrderNext]_vars


\* ------------------------------------------- the history and its readers
\* the event types and limits a client may pass to get_history; "if limit:"
\* takes the limits None and 0 alike
ReaderTypes == {None, "task_completed"}
NoLimit == 0
ReaderLimits == {NoLimit, 1}

ReaderEvents == { TaskEvent("task_completed", 1), TaskEvent("task_failed", 1) }

\* the last n elements of h, as the slice h[-n:]
LastN(h, n) == IF Len(h) <= n THEN h ELSE SubSeq(h, Len(h) - n + 1, Len(h))

\* EventBus.get_history: the filter and the slice each build a new list;
\* without either the bus's own list is returned
get_history(event_type, limit) ==
    LET IsType(e) == e.type = event_type
        h1 == IF event_type # None THEN SelectSeq(history, IsType) ELSE history
        h2 == IF limit # NoLimit THEN LastN(h1, limit) ELSE h1
        same == event_type = None /\ limit = NoLimit
    IN  /\ got' = [held |-> TRUE, alias |-> same, list |-> IF same THEN <<>> ELSE h2]
        /\ UNCHANGED << orchVars, busVars, history, adapterVars, storeVars, rulesVars, streamVars >>

\* the client clears the list it holds, or appends an event to it
mutate_returned(op, e) ==
    /\ got.held
    /\ IF got.alias
       THEN /\ op = "append" => Len(history) < MaxPublishes
            /\ history' = IF op = "clear" THEN <<>> ELSE Append(history, e)
            /\ UNCHANGED got
       ELSE /\ op = "append" => Len(got.list) < MaxPublishes
            /\ got' = [got EXCEPT !.list = IF op = "clear" THEN <<>> ELSE Append(@, e)]
            /\ UNCHANGED history
    /\ UNCHANGED << orchVars, busVars, adapterVars, storeVars, rulesVars, streamVars >>

\* EventBus.clear_history
clear_history ==
    /\ history' = <<>>
    /\ UNCHANGED << orchVars, busVars, adapterVars, clientVars, storeVars, rulesVars, streamVars >>

\* a bus of its own with nothing subscribed, and one client reading it
ReaderInit ==
    /\ target = "example.com"
    /\ mode = AUTO
    /\ max_parallel = 1
    /\ registry = [registered |-> {"subfinder"}, available |-> {"subfinder"}]
    /\ Constructed

ReaderNext ==
    \/ \E p \in OnePublisher, e \in ReaderEvents : EventBus_publish(p, e)
    \/ \E ty \in ReaderTypes, limit \in ReaderLimits : get_history(ty, limit)
    \/ \E op \in {"clear", "append"}, e \in ReaderEvents : mutate_returned(op, e)
    \/ clear_history

ReaderSpec == ReaderInit /\ [][ReaderNext]_vars


\* ------------------------------------------- the database alone
\* datetime.isoformat and datetime.fromisoformat; json.dumps and json.loads
isoformat(d) == << "iso", d >>
fromisoformat(x) == x[2]
json_dumps(m) == << "json", m >>
json_loads(x) == x[2]
NULL == << >>

\* the sessions handed to save_session: ids are unique within a session
TaskObjs ==
    { [id |-> "t1", status |-> PENDING, started_at |-> 0],
      [id |-> "t1", status |-> COMPLETED, started_at |-> 1],
      [id |-> "t2", status |-> PENDING, started_at |-> 0] }
AssetObjs == { [id |-> "a1", type |-> "subdomain", metadata |-> "ipv6"] }
FindingObjs == { [id |-> "f1", severity |-> "high", recommendations |-> <<>>] }
TaskLists ==
    {<<>>} \cup { <<t>> : t \in TaskObjs }
           \cup { p \in TaskObjs \X TaskObjs : p[1].id # p[2].id }
Sessions ==
    [ id : {"s1", "s2"}, completed_at : {0, 2}, tasks : TaskLists,
      assets : {<<>>} \cup { <<a>> : a \in AssetObjs },
      findings : {<<>>} \cup { <<f>> : f \in FindingObjs } ]

\* INSERT OR REPLACE: a row with the same primary key is deleted and the new
\* row gets the next rowid
insert_or_replace(table, row) ==
    LET Other(r) == r.id # row.id
    IN  Append(SelectSeq(table, Other), row)

RECURSIVE insert_all(_, _)
insert_all(table, rows) ==
    IF rows = <<>> THEN table
    ELSE insert_all(insert_or_replace(table, Head(rows)), Tail(rows))

\* the rows save_session writes for a session and its children
session_row(s) ==
    [id |-> s.id,
     completed_at |-> IF s.completed_at # 0 THEN isoformat(s.completed_at) ELSE NULL]
task_row(s, t) ==
    [id |-> t.id, session_id |-> s.id, status |-> t.status,
     started_at |-> IF t.started_at # 0 THEN isoformat(t.started_at) ELSE NULL]
asset_row(s, a) ==
    [id |-> a.id, session_id |-> s.id, type |-> a.type,
     metadata |-> json_dumps(a.metadata)]
finding_row(s, f) ==
    [id |-> f.id, session_id |-> s.id, severity |-> f.severity,
     recommendations |-> json_dumps(f.recommendations)]

\* Database.save_session
save_session(s) ==
    /\ db' = [sessions |-> insert_or_replace(db.sessions, session_row(s)),
              tasks |-> insert_all(db.tasks, [i \in 1..Len(s.tasks) |-> task_row(s, s.tasks[i])]),
              assets |-> insert_all(db.assets, [i \in 1..Len(s.assets) |-> asset_row(s, s.assets[i])]),
              findings |-> insert_all(db.findings,
                             [i \in 1..Len(s.findings) |-> finding_row(s, s.findings[i])])]
    /\ saved' = << s >>
    /\ loaded' = << >>
    /\ UNCHANGED << orchVars, busVars, history, adapterVars, clientVars, rulesVars, streamVars >>

\* the session get_session builds from the rows of session_id, read in rowid
\* order
read_session(d, session_id) ==
    LET Mine(r) == r.session_id = session_id
        row == CHOOSE r \in Range(d.sessions) : r.id = session_id
        ts == SelectSeq(d.tasks, Mine)
        as == SelectSeq(d.assets, Mine)
        fs == SelectSeq(d.findings, Mine)
    IN  [id |-> row.id,
         completed_at |-> IF row.completed_at # NULL THEN fromisoformat(row.completed_at)
                          ELSE 0,
         tasks |-> [i \in 1..Len(ts) |->
                      [id |-> ts[i].id, status |-> ts[i].status,
                       started_at |-> IF ts[i].started_at # NULL
                                      THEN fromisoformat(ts[i].started_at) ELSE 0]],
         assets |-> [i \in 1..Len(as) |->
                       [id |-> as[i].id, type |-> as[i].type,
                        metadata |-> json_loads(as[i].metadata)]],
         findings |-> [i \in 1..Len(fs) |->
                         [id |-> fs[i].id, severity |-> fs[i].severity,
                          recommendations |-> json_loads(fs[i].recommendations)]]]

\* Database.get_session: None for an id without a row
get_session(session_id) ==
    /\ saved # << >>
    /\ loaded' = << session_id,
                    IF \E r \in Range(db.sessions) : r.id = session_id
                    THEN << read_session(db, session_id) >> ELSE << >> >>
    /\ UNCHANGED << orchVars, busVars, history, adapterVars, clientVars, db, saved, rulesVars, streamVars >>

\* a database file of its own
StoreInit ==
    /\ target = "example.com"
    /\ mode = AUTO
    /\ max_parallel = 1
    /\ registry = [registered |-> {"subfinder"}, available |-> {"subfinder"}]
    /\ Constructed

StoreNext ==
    \/ \E s \in Sessions : save_session(s)
    \/ \E id \in {"s1", "s2"} : get_session(id)

StoreSpec == StoreInit /\ [][StoreNext]_vars


\* ------------------------------------------- the start of a scan alone
\* the orchestrators a client may construct, for every target
StartInit ==
    /\ target \in StartTargets
    /\ mode \in ScanMode
    /\ max_parallel \in 1..MaxParallel
    /\ registry \in Registries
    /\ Constructed

\* start() up to the first dispatch, with pause() and resume() around it
StartNext ==
    \/ Start
    \/ \E ok \in BOOLEAN : ScanStartedPublished(ok)
    \/ LoopWake
    \/ pause
    \/ resume

StartSpec == StartInit /\ [][StartNext]_vars


\* ---------------------------------------------- start() under fairness
\* the orchestrators of one target, run by an event loop that resumes every
\* coroutine that is ready: start() after the subscribers it awaits and after
\* each asyncio.sleep(1), and each work unit at its first run
TermInit ==
    /\ Init
    /\ target = "example.com"

Fairness ==
    /\ WF_vars(Start)
    /\ WF_vars(\E ok \in BOOLEAN : ScanStartedPublished(ok))
    /\ WF_vars(LoopWake)
    /\ WF_vars(\E ok \in BOOLEAN : ScanCompletedPublished(ok))
    /\ WF_vars(\E t \in 1..MaxTasks : ExecuteTask(t))

TermSpec == TermInit /\ [][Next]_vars /\ Fairness


\* ------------------------------------- a streaming adapter and its findings
\* the lines httpx may write: a JSON object with its url, status_code and
\* title, or a line that is not JSON
JsonLine(u, code, title) == [json |-> TRUE, url |-> u, status_code |-> code, title |-> title]

HttpxLines ==
    { JsonLine("http://a.example.com", 403, "Files"),
      JsonLine("http://b.example.com", 200, "Admin login"),
      JsonLine("http://c.example.com", 401, "Dashboard"),
      JsonLine("http://a.example.com", 200, "Welcome"),
      JsonLine("", 0, ""),
      [json |-> FALSE, url |-> "", status_code |-> 0, title |-> ""] }

\* the outputs of one run of httpx
RECURSIVE SeqsUpTo(_, _)
SeqsUpTo(S, n) ==
    IF n = 0 THEN {<<>>}
    ELSE LET shorter == SeqsUpTo(S, n - 1)
         IN  shorter \cup { Append(q, x) : q \in shorter, x \in S }

HttpxOutputs == SeqsUpTo(HttpxLines, MaxLines)

\* httpx.py lines 80-81: the titles of the lines above whose lower case
\* holds one of admin, login, dashboard, panel, console
SensitiveTitles == {"Admin login", "Dashboard"}

MkFinding(title, host) == [severity |-> "medium", title |-> title, host |-> host]

\* HttpxAdapter.parse_output, lines 39-95, for one line: what it adds to the
\* assets and to the findings
line_assets(l) ==
    IF l.json /\ l.url # "" THEN << MkAsset("http_service", l.url) >> ELSE <<>>

line_findings(l) ==
    IF l.json /\ l.url # ""
    THEN (IF l.status_code \in {401, 403}
          THEN << MkFinding(IF l.status_code = 401 THEN "Protected Resource (401)"
                            ELSE "Protected Resource (403)", l.url) >>
          ELSE <<>>)
         \o (IF l.title \in SensitiveTitles
             THEN << MkFinding("Sensitive Page Detected", l.url) >> ELSE <<>>)
    ELSE <<>>

\* HttpxAdapter.parse_output: the result for the output made of lines
RECURSIVE parse_output(_)
parse_output(lines) ==
    IF lines = <<>> THEN [success |-> TRUE, assets |-> <<>>, findings |-> <<>>]
    ELSE LET r == parse_output(SubSeq(lines, 1, Len(lines) - 1))
             l == lines[Len(lines)]
         IN  [r EXCEPT !.assets = @ \o line_assets(l),
                       !.findings = @ \o line_findings(l)]

\* HttpxAdapter.parse_partial, lines 104-106
parse_partial(lines) == parse_output(lines)

FindingEvent(f) ==
    [type |-> "finding_discovered", task |-> 0, atype |-> "", avalue |-> "",
     title |-> f.title, host |-> f.host]

\* the session, the plan, the dedup keys and the history, as the handling of
\* one result changes them
Handled ==
    [seen |-> seen_assets, assets |-> assets, tasks |-> tasks, pending |-> pending,
     findings |-> findings, history |-> history]

\* _execute_task, lines 241-242, with _handle_asset, lines 277-316, on a bus
\* whose subscribers return
RECURSIVE handle_assets(_, _)
handle_assets(as, st) ==
    IF as = <<>> THEN st
    ELSE IF AlreadySeen(Head(as), st.seen) THEN handle_assets(Tail(as), st)
    ELSE LET a == Head(as)
             aid == Len(st.assets) + 1
             c == IF Chains(mode)
                  THEN ChainFor(get_next_tools(a), st.tasks, st.pending, aid, a.value)
                  ELSE [tasks |-> st.tasks, pending |-> st.pending]
         IN  handle_assets(Tail(as),
                 [st EXCEPT !.seen = @ \cup {asset_key(a)},
                            !.assets = Append(@, a),
                            !.history = publish(@, AssetEvent(a)),
                            !.tasks = c.tasks,
                            !.pending = c.pending])

\* _execute_task, lines 245-246, with _handle_finding, lines 318-334
RECURSIVE handle_findings(_, _)
handle_findings(fs, st) ==
    IF fs = <<>> THEN st
    ELSE handle_findings(Tail(fs),
             [st EXCEPT !.findings = Append(@, Head(fs)),
                        !.history = publish(@, FindingEvent(Head(fs)))])

\* _execute_task, lines 239-256: the body of the loop for result res of the
\* stream of task t
consume(t, res) ==
    IF ~res.success THEN Handled
    ELSE LET st == handle_findings(res.findings, handle_assets(res.assets, Handled))
         IN  [st EXCEPT !.tasks[t].progress = metadata_get_progress(NoProgress),
                        !.history = publish(@, TaskEvent("task_progress", t))]

\* ToolAdapter.execute, lines 85-93, called by the work unit of the httpx
\* task: the child process is spawned; out is what it will write
HttpxSpawned(t, out) ==
    /\ units[t].pc = "await_result"
    /\ tasks[t].name = "httpx"
    /\ units' = [units EXCEPT ![t].pc = "reading"]
    /\ output' = out
    /\ stdout_data' = <<>>
    /\ UNCHANGED << configVars, busVars, adapterVars, clientVars, storeVars, rulesVars,
                    tasks, assets, completed_at, pending, planLists, paused, stopped,
                    seen_assets, history, mainpc, ingested, findings >>

\* ToolAdapter.execute, lines 99-114, and _execute_task, lines 238-256: a
\* line is read and appended, parse_partial parses all that was read, and a
\* result with assets or findings is yielded and handled
HttpxLine(t) ==
    /\ units[t].pc = "reading"
    /\ output # <<>>
    /\ LET data == Append(stdout_data, Head(output))
           partial_result == parse_partial(data)
           st == IF partial_result.success
                    /\ (partial_result.assets # <<>> \/ partial_result.findings # <<>>)
                 THEN consume(t, partial_result)
                 ELSE Handled
       IN  /\ output' = Tail(output)
           /\ stdout_data' = data
           /\ seen_assets' = st.seen
           /\ assets' = st.assets
           /\ tasks' = st.tasks
           /\ pending' = st.pending
           /\ findings' = st.findings
           /\ history' = st.history
    /\ UNCHANGED << configVars, busVars, adapterVars, clientVars, storeVars, rulesVars,
                    completed_at, planLists, paused, stopped, mainpc, units, ingested >>

\* ToolAdapter.execute, lines 105-140 and 148-154, and _execute_task, lines
\* 238-265: the stream of the child ends, parse_output parses all that was
\* read, its result is yielded and handled, the stream is exhausted and the
\* task is marked completed
HttpxEOF(t) ==
    /\ units[t].pc = "reading"
    /\ output = <<>>
    /\ LET st == consume(t, parse_output(stdout_data))
       IN  /\ seen_assets' = st.seen
           /\ assets' = st.assets
           /\ pending' = st.pending
           /\ findings' = st.findings
           /\ tasks' = mark_completed_task(st.tasks, t)
           /\ history' = publish(st.history, TaskEvent("task_completed", t))
    /\ running' = Remove(running, t)
    /\ completed' = Append(completed, t)
    /\ units' = [units EXCEPT ![t].pc = "pub_completed"]
    /\ UNCHANGED << configVars, busVars, adapterVars, clientVars, storeVars, rulesVars,
                    completed_at, failed, skipped, paused, stopped, mainpc, ingested,
                    output, stdout_data >>

\* the orchestrator of a URL target with httpx installed, on a bus whose
\* subscribers return, in an event loop that outlives start()
FindingInit ==
    /\ target = "https://x.example.com/"
    /\ mode \in ScanMode
    /\ max_parallel = 1
    /\ registry = [registered |-> {"httpx"}, available |-> {"httpx"}]
    /\ Constructed

FindingNext ==
    \/ Start
    \/ ScanStartedPublished(TRUE)
    \/ ScanCompletedPublished(TRUE)
    \/ \E t \in 1..MaxTasks : ExecuteTask(t)
    \/ \E t \in 1..MaxTasks : TaskStartedPublished(t, TRUE)
    \/ \E t \in 1..MaxTasks, out \in HttpxOutputs : HttpxSpawned(t, out)
    \/ \E t \in 1..MaxTasks : HttpxLine(t)
    \/ \E t \in 1..MaxTasks : HttpxEOF(t)
    \/ \E t \in 1..MaxTasks : CompletedPublished(t, TRUE)

FindingSpec == FindingInit /\ [][FindingNext]_vars


\* ------------------------------------------- the rules engine alone
\* the rules a client may add and the assets it may ask about
ExtraRules ==
    { Rule("custom_resolve", "subdomain", "nuclei", 9, FALSE),
      Rule("custom_masscan", "ip", "masscan", 12, FALSE),
      Rule("custom_wpscan", "http_service", "wpscan", 7, TRUE) }
RuleAssets ==
    { MkAsset("domain", "example.org"), MkAsset("subdomain", "a.example.com"),
      MkAsset("ip", "10.0.0.1"), MkAsset("http_service", "http://a.example.com"),
      [MkAsset("http_service", "http://b.example.com") EXCEPT !.tech = "WordPress"],
      MkAsset("port", "443") }

\* RulesEngine.add_rule
add_rule(r) ==
    /\ Len(rules) < Len(default_rules) + MaxAddedRules
    /\ rules' = Append(rules, r)
    /\ matched' = << >>
    /\ UNCHANGED << orchVars, busVars, history, adapterVars, clientVars, storeVars, streamVars >>

\* a call of RulesEngine.get_next_tools
GetNextTools(a) ==
    /\ matched' = << a, get_next_tools(a) >>
    /\ UNCHANGED << orchVars, busVars, history, adapterVars, clientVars, storeVars, rules, streamVars >>

\* a rules engine of its own
RulesInit ==
    /\ target = "example.com"
    /\ mode = AUTO
    /\ max_parallel = 1
    /\ registry = [registered |-> {"subfinder"}, available |-> {"subfinder"}]
    /\ Constructed

RulesNext ==
    \/ \E r \in ExtraRules : add_rule(r)
    \/ \E a \in RuleAssets : GetNextTools(a)

RulesSpec == RulesInit /\ [][RulesNext]_vars


\* ------------------------------------------------------------ properties
Terminal == {COMPLETED, FAILED, SKIPPED}

TaskIds == 1..Len(tasks)

\* the work units the main loop has dispatched and that are not finished
Unfinished ==
    { t \in TaskIds : units[t].pc # "none" /\ tasks[t].status \notin {COMPLETED, FAILED} }

\* C1: at every moment the number of work units dispatched by the main loop
\* and not yet marked COMPLETED or FAILED is at most config.max_parallel.
C1_ParallelCap == Cardinality(Unfinished) <= max_parallel

\* C1 witness: a dispatched work unit is running its adapter while the main
\* coroutine has been through its loop.
C1_Witness ==
    /\ mainpc \in {"pub_scan_completed", "done"}
    /\ \E t \in TaskIds : units[t].pc = "await_result" /\ tasks[t].status = RUNNING
    /\ Cardinality(Unfinished) = 1


\* C2: in AUTO mode, with the scan never stopped nor left paused and no
\* adapter stream left unfinished, every task of session.tasks is in a
\* terminal status when start() returns.
C2_AllTasksFinish ==
    ( /\ mainpc = "done"
      /\ mode = AUTO
      /\ ~stopped
      /\ ~paused
      /\ \A t \in TaskIds : units[t].pc # "await_result" )
    => \A t \in TaskIds : tasks[t].status \in Terminal

\* the events of the history that carry task t's id
TaskEvents(t) ==
    SelectSeq(history, LAMBDA e : e.type \in TaskEventTypes /\ e.task = t)

\* C3: the events of one task come in the order TASK_STARTED, any number of
\* TASK_PROGRESS, then one of TASK_COMPLETED and TASK_FAILED, and nothing
\* after it.
C3_TaskEventOrder ==
    \A t \in TaskIds :
        LET s == TaskEvents(t)
        IN  \A i \in 1..Len(s) :
                /\ (i = 1) <=> (s[i].type = "task_started")
                /\ (i < Len(s)) => s[i].type \notin {"task_completed", "task_failed"}

\* C4: SCAN_STARTED is published before every task event and SCAN_COMPLETED
\* after every task event.
C4_ScanEventsBracket ==
    \A i \in 1..Len(history) :
        history[i].type \in TaskEventTypes =>
            /\ \E j \in 1..(i-1) : history[j].type = "scan_started"
            /\ \A j \in 1..(i-1) : history[j].type # "scan_completed"

\* C5: once session.completed_at is set every task of session.tasks is in a
\* terminal status.
C5_CompletedSessionTerminal ==
    completed_at => \A t \in TaskIds : tasks[t].status \in Terminal

\* C6: from the publication of SCAN_COMPLETED on, plan.pending and
\* plan.running are empty.
C6_PlanEmptyAfterScan ==
    (\E i \in 1..Len(history) : history[i].type = "scan_completed")
    => (pending = <<>> /\ running = <<>>)

\* the entries of session.assets with a's (type, value) pair
Entries(a) ==
    { i \in 1..Len(assets) : assets[i].type = a.type /\ assets[i].value = a.value }

\* C7: no two entries of session.assets have the same (type, value) pair,
\* and an asset that is the only one reported, any number of times, has
\* exactly one entry.
C7_UniqueAssets ==
    /\ \A i, j \in 1..Len(assets) :
          (assets[i].type = assets[j].type /\ assets[i].value = assets[j].value)
          => i = j
    /\ \A a \in AssetPool :
          (ingested[a] >= 1 /\ \A b \in AssetPool \ {a} : ingested[b] = 0)
          => Cardinality(Entries(a)) = 1

\* C7 witness: one asset was reported three times or more, in one result and
\* across results, and session.assets holds it once.
C7_Witness ==
    \E a \in AssetPool :
        /\ ingested[a] >= 3
        /\ \E t \in TaskIds : units[t].nres >= 2
        /\ \A b \in AssetPool \ {a} : ingested[b] = 0
        /\ Cardinality(Entries(a)) = 1
        /\ Len(assets) = 1

\* the ASSET_DISCOVERED events published for a's (type, value) pair
Discovered(a) ==
    { i \in 1..Len(history) :
        /\ history[i].type = "asset_discovered"
        /\ history[i].atype = a.type
        /\ history[i].avalue = a.value }

\* C8: for every (type, value) pair ingested at least once, exactly one
\* ASSET_DISCOVERED event with that type and value is published.
C8_OneDiscoveryPerPair ==
    \A a \in AssetPool : ingested[a] >= 1 => Cardinality(Discovered(a)) = 1

\* the number of places t takes in the five buckets of the plan
Owners(t) == Cardinality({ i \in 1..Len(all_tasks) : all_tasks[i] = t })

\* C9: every task of session.tasks is in exactly one of plan.pending,
\* plan.running, plan.completed, plan.failed and plan.skipped.
C9_OneBucketPerTask ==
    /\ \A t \in TaskIds : Owners(t) = 1
    /\ Range(all_tasks) \subseteq TaskIds

ValidTransitions ==
    { <<PENDING, RUNNING>>, <<RUNNING, COMPLETED>>, <<RUNNING, FAILED>>,
      <<PENDING, SKIPPED>> }

\* C10: every status change of a task is PENDING->RUNNING, RUNNING->COMPLETED,
\* RUNNING->FAILED or PENDING->SKIPPED, so that a terminal status never
\* changes.
C10_ValidTransitions ==
    [][ \A t \in TaskIds :
            tasks'[t].status # tasks[t].status
            => <<tasks[t].status, tasks'[t].status>> \in ValidTransitions ]_vars

\* C11: a task whose adapter's read of its child's stdout timed out ends
\* FAILED, with the adapter's timeout error as its error.
C11_TimeoutFailsTask ==
    \A t \in TaskIds :
        units[t].last = "timeout"
        => /\ tasks[t].status = FAILED
           /\ tasks[t].error = result_error("timeout")

\* C12: a dispatched task whose tool is not registered or not available is
\* marked FAILED and a TASK_FAILED event carrying its id is published.
C12_MissingToolPublishesFailure ==
    \A t \in TaskIds :
        (units[t].pc = "done" /\ tasks[t].error \in {"Tool not found", "Tool not available"})
        => /\ tasks[t].status = FAILED
           /\ \E i \in 1..Len(history) :
                  history[i].type = "task_failed" /\ history[i].task = t

\* C13: an exception raised by a task's adapter stream marks that task FAILED
\* with the exception's text as error and publishes TASK_FAILED for it; the
\* work unit goes on to the publication instead of raising, the main
\* coroutine and every other task are left as they were; a work unit raises
\* only out of a publication, never out of its adapter stream.
C13_AdapterExceptionIsolated ==
    [][ \A t \in TaskIds :
            /\ (units[t].pc = "await_result" /\ tasks'[t].status = FAILED)
               => /\ tasks'[t].error = "adapter error"
                  /\ tasks'[t].completed_at > 0
                  /\ history' # <<>>
                  /\ history'[Len(history')] = TaskEvent("task_failed", t)
                  /\ units'[t].pc = "pub_failed"
                  /\ mainpc' = mainpc
                  /\ Len(tasks') = Len(tasks)
                  /\ \A u \in TaskIds \ {t} : tasks'[u] = tasks[u]
            /\ (units'[t].pc = "raised" /\ units[t].pc # "raised")
               => units[t].pc \in {"pub_started", "pub_failed"} ]_vars

\* C13 witness: a task failed by its adapter's exception, its TASK_FAILED
\* delivered, its work unit returned and start() returned.
C13_Witness ==
    \E t \in TaskIds :
        /\ tasks[t].status = FAILED
        /\ tasks[t].error = "adapter error"
        /\ units[t].pc = "done"
        /\ mainpc = "done"
        /\ \E i \in 1..Len(history) :
               history[i].type = "task_failed" /\ history[i].task = t

\* C14: a task whose stream ended with a final result of success=False ends
\* FAILED when no result was yielded before it (with the captured stderr as
\* error after a non-zero exit), and COMPLETED when one was.
C14_FinalFailureFailsTask ==
    \A t \in TaskIds :
        (units[t].last \in {"parse", "exit"} /\ units[t].pc = "done")
        => IF units[t].nres = 0
           THEN /\ tasks[t].status = FAILED
                /\ units[t].last = "exit" => tasks[t].error = result_error("exit")
           ELSE tasks[t].status = COMPLETED

\* C15: when a call of publish has returned or raised, with the list of its
\* event type unchanged meanwhile, every subscriber that was registered for
\* the type has been invoked with the event, in registration order.
C15_AllSubscribersInvoked ==
    \A p \in Publishers :
        (calls[p].pc \in {"returned", "raised"} /\ calls[p].stable)
        => calls[p].invoked = calls[p].subs

\* C16: an exception raised by a subscriber never reaches the publisher:
\* neither start() nor a work unit ends with it, and no task is failed by it.
C16_SubscriberErrorContained ==
    /\ mainpc # "raised"
    /\ \A t \in TaskIds :
          /\ units[t].pc # "raised"
          /\ tasks[t].error # "subscriber error"

\* C17: while a task is RUNNING its progress stays within 0..100 and never
\* decreases from one result to the next, whether or not the results carry
\* metadata.progress.
C17_ProgressMonotone ==
    [][ \A t \in TaskIds :
            (tasks[t].status = RUNNING /\ tasks'[t].status = RUNNING)
            => /\ tasks'[t].progress >= tasks[t].progress
               /\ tasks'[t].progress \in 0..100 ]_vars

\* C18: a task's error is set if and only if the task is FAILED.
C18_ErrorIffFailed ==
    \A t \in TaskIds : (tasks[t].error # None) <=> (tasks[t].status = FAILED)

\* C18 witness: one task has failed, after it had completed, and carries an
\* error, while a task chained from its asset is pending and carries none.
C18_Witness ==
    \E t, u \in TaskIds :
        /\ tasks[t].status = FAILED
        /\ tasks[t].error = "subscriber error"
        /\ t \in Range(completed)
        /\ tasks[u].status = PENDING
        /\ tasks[u].error = None

\* C19: every task in a terminal status has completed_at set and started_at
\* set, with started_at not later than completed_at.
C19_TerminalTimestamps ==
    \A t \in TaskIds :
        tasks[t].status \in Terminal
        => /\ tasks[t].completed_at > 0
           /\ tasks[t].started_at > 0
           /\ tasks[t].started_at <= tasks[t].completed_at

\* C20: a COMPLETED task has progress 100, in every state.
C20_CompletedProgress ==
    \A t \in TaskIds : tasks[t].status = COMPLETED => tasks[t].progress = 100

\* C20 witness: a task that reported progress below 100 while it ran is
\* COMPLETED with progress 100 after its TASK_COMPLETED was delivered and
\* start() has returned.
C20_Witness ==
    \E t \in TaskIds :
        /\ tasks[t].status = COMPLETED
        /\ tasks[t].progress = 100
        /\ units[t].pc = "done"
        /\ units[t].nres >= 1
        /\ mainpc = "done"
        /\ \E i \in 1..Len(history) :
               history[i].type = "task_progress" /\ history[i].task = t

\* the priority of the rule that task t was chained by
RulePriority(t) ==
    LET ms == get_next_tools(assets[tasks[t].asset_id])
        i == CHOOSE k \in 1..Len(ms) : ms[k].target_tool = tasks[t].name
    IN  ms[i].priority

\* C21: when a task is extracted from plan.pending, no task chained from the
\* same asset by a rule of higher priority is left behind in the queue.
C21_HigherPriorityFirst ==
    [][ (pending # <<>> /\ pending' = Tail(pending))
        => \A i \in 1..Len(pending') :
              tasks[pending'[i]].asset_id = tasks[Head(pending)].asset_id
              => RulePriority(pending'[i]) <= RulePriority(Head(pending)) ]_vars

\* the work units that a step creates
Dispatched == { t \in DOMAIN units : units'[t].pc = "created" /\ units[t].pc # "created" }

\* C22: a step taken while the paused flag is set dispatches no task and
\* removes nothing from plan.pending; pause() and resume() leave every work
\* unit, task and plan list as it is; and when the loop, not stopped, exits,
\* it has dispatched every task that was pending, the head of the queue
\* included.
C22_PauseHoldsDispatch ==
    [][ /\ paused => /\ Dispatched = {}
                     /\ \A i \in 1..Len(pending) : pending[i] \in Range(pending')
        /\ paused' # paused
           => /\ units' = units
              /\ tasks' = tasks
              /\ pending' = pending
              /\ planLists' = planLists
        /\ (mainpc = "sleep" /\ mainpc' = "pub_scan_completed" /\ ~stopped)
           => /\ ~paused
              /\ pending' = <<>>
              /\ Dispatched = Range(pending) ]_vars

\* C22 witness: the loop has found the paused flag set and sleeps, with the
\* initial task still in plan.pending and no work unit created.
C22_Witness ==
    /\ paused
    /\ ~stopped
    /\ mainpc = "sleep"
    /\ pending = <<1>>
    /\ \A t \in DOMAIN units : units[t].pc = "none"

\* C23: a step taken while the stopped flag is set dispatches no task and
\* removes nothing from plan.pending; a loop that runs with the flag set
\* exits, paused or not; stop() leaves every work unit, task and plan list as
\* it is, and nothing ever clears the flag.
C23_StopEndsDispatch ==
    [][ /\ stopped => /\ Dispatched = {}
                      /\ \A i \in 1..Len(pending) : pending[i] \in Range(pending')
                      /\ mainpc' # mainpc => mainpc' # "sleep"
                      /\ stopped'
        /\ stopped' # stopped
           => /\ units' = units
              /\ tasks' = tasks
              /\ pending' = pending
              /\ planLists' = planLists ]_vars

\* C23 witness: the loop has found the stopped flag set while it was also
\* paused, and start() has returned with the initial task still in
\* plan.pending and never dispatched.
C23_Witness ==
    /\ stopped
    /\ paused
    /\ mainpc = "done"
    /\ pending = <<1>>
    /\ \A t \in DOMAIN units : units[t].pc = "none"

\* C24: concurrent calls of execute() on one adapter share nothing: a call is
\* only ever suspended on the stdout, the stderr or the exit of the child it
\* spawned itself, and a child is only ever killed by the call that spawned
\* it (or by cancel()).
C24_ExecutesShareNothing ==
    /\ \A c \in Callers :
          execs[c].pc \in {"reading", "stderr", "waiting"} => execs[c].on = c
    /\ \A p \in Callers : children[p].killer \in {"", "cancel", p}

\* C25: once a call of execute() is over, whichever way it ended, the child
\* it spawned has exited or been killed and the adapter's handle does not
\* name that child.
C25_ChildReleasedOnExit ==
    \A c \in Callers :
        execs[c].pc = "returned" => children[c].state # "running" /\ process # c

\* a call of execute() yields a ToolResult in this step
Yields(c) == execs'[c].pc \in YieldPcs /\ execs'[c].pc # execs[c].pc

\* C26: once cancel() has killed the child of a call of execute() that is in
\* progress, that call yields no further ToolResult.
C26_NoResultAfterCancel ==
    [][ \A c \in Callers : children[c].killer = "cancel" => ~Yields(c) ]_vars

\* C27: after the events numbered 1, 2, .. n have been published, the history
\* holds at most max_history events and is exactly the last
\* min(n, max_history) of them in publication order: the evicted ones are the
\* oldest.
C27_HistoryIsRecentWindow ==
    /\ Len(history) <= max_history
    /\ history # <<>> =>
          LET n == history[Len(history)].task
          IN  /\ Len(history) = IF n < max_history THEN n ELSE max_history
              /\ \A i \in 1..Len(history) :
                    history[i] = TaskEvent("task_progress", n - Len(history) + i)

\* C27 witness: two events more than the history holds have been published
\* and the history begins with the third
C27_Witness ==
    /\ Len(history) = max_history
    /\ history[1].task = 3
    /\ history[max_history].task = max_history + 2

\* C28: in a call of publish during which the subscriber list of the event's
\* type is not changed, the subscribers invoked so far are the first ones of
\* the list, in registration order, and while a coroutine subscriber is
\* awaited it is the last one invoked: no later subscriber is invoked before
\* it has finished.
C28_RegistrationOrder ==
    \A p \in Publishers :
        (calls[p].pc # "idle" /\ calls[p].stable)
        => /\ Len(calls[p].invoked) <= Len(calls[p].subs)
           /\ calls[p].invoked = SubSeq(calls[p].subs, 1, Len(calls[p].invoked))
           /\ calls[p].pc = "awaiting"
                 => /\ Len(calls[p].invoked) = calls[p].idx
                    /\ calls[p].invoked[calls[p].idx].async

\* C28 witness: a call of publish has returned after it awaited the coroutine
\* subscriber registered first and then called the plain one registered second
C28_Witness ==
    \E p \in Publishers :
        /\ calls[p].pc = "returned"
        /\ calls[p].stable
        /\ Len(calls[p].invoked) = 2
        /\ calls[p].invoked[1].async
        /\ ~calls[p].invoked[2].async

\* C29: the bus history changes only in a step of publish, which appends an
\* event (and evicts the oldest one of a full history): no reader of the
\* history, whatever it does to the list get_history gave it, and no other
\* operation changes it.
C29_OnlyPublishMutates ==
    [][ history' # history
        => \E e \in ReaderEvents : /\ history' = publish(history, e)
                                   /\ calls'["unit"].event = e ]_vars

\* C30: what get_session returns for the id of the session that was just
\* saved is that session: same fields, same children in the same order.
C30_SessionRoundTrip ==
    (loaded # << >> /\ loaded[1] = saved[1].id) => loaded[2] = saved

\* the tool the initial task is to name, by the shape of the target
ExpectedTool ==
    IF target \in UrlTargets \cup MoreUrlTargets THEN "httpx"
    ELSE IF target \in IpTargets \cup MoreIpTargets THEN "nmap"
    ELSE "subfinder"

\* C31: until start() has published SCAN_STARTED the plan and the session
\* hold no task; once it has gone on, session.tasks begins with the one
\* initial task, PENDING when created, named httpx for a URL target, nmap for
\* an IPv4 address and subfinder otherwise, with the configured target and
\* no asset, and that task is in plan.pending or has been dispatched.
C31_InitialTask ==
    /\ mainpc \in {"init", "pub_scan_started"}
          => /\ tasks = <<>>
             /\ pending = <<>>
             /\ planLists = << <<>>, <<>>, <<>>, <<>> >>
    /\ mainpc \in {"sleep", "pub_scan_completed", "done"}
          => /\ Len(tasks) = 1
             /\ tasks[1].name = ExpectedTool
             /\ tasks[1].target = target
             /\ tasks[1].asset_id = 0
             /\ pending = <<1>> \/ (pending = <<>> /\ units[1].pc = "created")

\* C31 witness: start() was called for a URL target with an IP host and a
\* port while the scan was paused: the httpx task is enqueued and waits
C31_Witness ==
    /\ target = "http://10.0.0.1:8080"
    /\ mainpc = "sleep"
    /\ pending = <<1>>
    /\ tasks[1].name = "httpx"

\* the elements of a list of rules that have priority p, in the order of the
\* list
WithPriority(ms, p) == SelectSeq(ms, LAMBDA r : r.priority = p)

\* C32: the result of get_next_tools for an asset is in descending order of
\* priority and, for each priority, holds exactly the rules of that priority
\* whose condition the asset meets, in the order in which they were declared.
C32_MatchesSortedStable ==
    matched # << >> =>
        LET a == matched[1]
            m == matched[2]
        IN  /\ \A i, j \in 1..Len(m) : i < j => m[i].priority >= m[j].priority
            /\ \A p \in { r.priority : r \in Range(rules) } \cup { r.priority : r \in Range(m) } :
                  WithPriority(m, p)
                    = WithPriority(SelectSeq(rules, LAMBDA r : condition(r, a)), p)

\* C32 witness: for a subdomain, a rule added by the client ties with the
\* default dnsx rule at priority 9 and comes after it, before httpx
C32_Witness ==
    /\ matched # << >>
    /\ Len(matched[2]) = 3
    /\ matched[2][1].name = "subdomain_to_dnsx"
    /\ matched[2][2].name = "custom_resolve"
    /\ matched[2][3].name = "subdomain_to_httpx"

\* C33: in PASSIVE and INTERACTIVE mode no step leaves more than the initial
\* task in session.tasks or anything but it in plan.pending, while assets are
\* still deduplicated and recorded: an asset is appended to session.assets
\* exactly when its key is new, and ASSET_DISCOVERED is then published for
\* it.
C33_NoChainOutsideAuto ==
    [][ mode # AUTO
        => /\ Len(tasks') <= 1
           /\ \A i \in 1..Len(tasks') : tasks'[i].asset_id = 0
           /\ Range(pending') \subseteq {1}
           /\ assets' # assets <=> seen_assets' # seen_assets
           /\ assets' # assets
                 => \E a \in AssetPool :
                        /\ asset_key(a) \notin seen_assets
                        /\ seen_assets' = seen_assets \cup {asset_key(a)}
                        /\ assets' = Append(assets, a)
                        /\ history'[Len(history')] = AssetEvent(a) ]_vars

\* C33 witness: a PASSIVE scan whose subfinder task found a subdomain, for
\* which dnsx is registered and available, has finished with the one task
C33_Witness ==
    /\ mode = PASSIVE
    /\ target = "example.com"
    /\ \E i \in 1..Len(assets) : assets[i].type = "subdomain"
    /\ Len(tasks) = 1
    /\ tasks[1].status = COMPLETED
    /\ mainpc = "done"

\* everything of the orchestrator but its two flags: the session, the plan,
\* seen_assets, the work units, the bus history and the main coroutine
BesidesFlags ==
    << tasks, assets, completed_at, pending, planLists, seen_assets, units, history,
       mainpc >>

\* C34: a step that changes the paused flag changes nothing else, a step that
\* changes the stopped flag changes nothing else, and the stopped flag, once
\* set, stays set.
C34_FlagsOnly ==
    [][ /\ paused' # paused => stopped' = stopped /\ BesidesFlags' = BesidesFlags
        /\ stopped' # stopped => paused' = paused /\ BesidesFlags' = BesidesFlags
        /\ stopped => stopped' ]_vars

\* C34 witness: a scan with a task running was paused and then stopped
C34_Witness ==
    /\ paused
    /\ stopped
    /\ \E t \in TaskIds : tasks[t].status = RUNNING /\ units[t].pc = "await_result"

\* the sequence s in reverse
RECURSIVE Reverse(_)
Reverse(s) == IF s = <<>> THEN <<>> ELSE Append(Reverse(Tail(s)), Head(s))

C36_PublicationOrder ==
    \A p \in Publishers, q \in Publishers :
        ( /\ calls[p].pc = "awaiting"
          /\ calls[q].pc # "idle"
          /\ calls[p].stable /\ calls[q].stable
          /\ calls[p].event.type = calls[q].event.type
          /\ calls[p].event.task < calls[q].event.task )
        => Len(calls[q].invoked) <= Len(calls[p].invoked)

\* the SCAN_COMPLETED events of the history
ScanCompletedEvents == SelectSeq(history, LAMBDA e : e.type = "scan_completed")

\* start() has left the main loop for good, by returning or by raising out of
\* the publication that follows it
LoopExited == mainpc \in {"pub_scan_completed", "done"} \/ (mainpc = "raised" /\ completed_at)

\* C37: a scan that is not left paused forever ends: start() is called, the
\* main loop exits, session.completed_at is set and one SCAN_COMPLETED event,
\* never a second one, is published.
C37_StartTerminates ==
    /\ [](Len(ScanCompletedEvents) <= 1)
    /\ (<>[](~paused)) => <>(LoopExited /\ completed_at /\ Len(ScanCompletedEvents) = 1)

\* C38: an asset handed to _handle_asset is dropped only as the duplicate of
\* an asset of the same type and the same value: every (type, value) pair
\* that was ingested is the pair of an asset of session.assets.
C38_DroppedOnlyAsDuplicate ==
    \A a \in AssetPool :
        ingested[a] >= 1
        => \E i \in DOMAIN assets : assets[i].type = a.type /\ assets[i].value = a.value

\* the number of registrations, or of invocations, of callback cb in list
Count(cb, list) == Cardinality({ i \in DOMAIN list : list[i] = cb })

\* C39: subscribe and unsubscribe called on the event type while a call of
\* publish is under way take the event from no subscriber that stays
\* registered and give it to none twice: when the call has returned, every
\* callback has been invoked at least as often as it was registered both when
\* publish was called and now, and at most as often as it was registered then
\* or now.
C39_NoMissNoTwice ==
    \A p \in OnePublisher :
        calls[p].pc = "returned"
        => \A cb \in Callbacks :
              LET before == Count(cb, calls[p].subs)
                  now == Count(cb, SubscribersOf(subscribers, calls[p].event.type))
                  invoked == Count(cb, calls[p].invoked)
              IN  /\ invoked >= (IF before < now THEN before ELSE now)
                  /\ invoked <= (IF before < now THEN now ELSE before)

\* the FINDING_DISCOVERED events of the history
FindingEvents == SelectSeq(history, LAMBDA e : e.type = "finding_discovered")

\* C40: when the httpx task has completed, session.findings holds as many
\* findings, and the history as many FINDING_DISCOVERED events, as the
\* parse_output result of the whole output of the tool.
C40_FindingsRecordedOnce ==
    \A t \in TaskIds :
        (tasks[t].name = "httpx" /\ tasks[t].status = COMPLETED)
        => /\ Len(findings) = Len(parse_output(stdout_data).findings)
           /\ Len(FindingEvents) = Len(parse_output(stdout_data).findings)

====
